---- MODULE Spec2Model ----
(***************************************************************************)
(* Model of the agent coordination engine of backend/main.go: the agent    *)
(* registry, the task queue (a Go slice with its backing array), the       *)
(* per-agent execution loops, direct command execution, termination and    *)
(* the durable mirror.                                                     *)
(*                                                                         *)
(* Strings that the code inspects (commands, outputs) are sequences of     *)
(* one-character strings; "" is <<>>.  Strings used as atoms (status,      *)
(* message type, agent name, error text) are TLA+ strings.                 *)
(***************************************************************************)
EXTENDS Integers, Sequences, FiniteSets, TLC

VARIABLES
    agents,      \* am.agents: live id -> reference to an Agent object
    objs,        \* the Agent objects the map and the goroutines point to
    qarr,        \* backing array of am.queue (Len(qarr) = cap(am.queue))
    qlen,        \* len(am.queue)
    threads,     \* goroutines: execution loops and direct executes
    running,     \* am.running
    terminated,  \* am.terminated
    termpc,      \* position of a GracefulTerminate call in flight
    db,          \* the durable store (am.db): agents and queue tables
    nextUid,     \* number of queue items created so far, plus one
    published,   \* messages handed to broadcastMessage by the last step
    ret,         \* the API call the last step returned from, its value
    clients,     \* am.clients: the registered connections
    closed,      \* connections that are closed: a write to them fails
    pubs,        \* calls of broadcastMessage, in flight and returned
    handlers     \* connections whose handleWebSocket goroutine is running

vars == <<agents, objs, qarr, qlen, threads, running, terminated, termpc,
          db, nextUid, published, ret, clients, closed, pubs, handlers>>

\* the state of the hub: with no connection registered, a call of
\* broadcastMessage finds nothing to write to and leaves it as it is
hub == <<clients, closed, pubs, handlers>>

----------------------------------------------------------------------------
(* Program constants and bounds *)

maxAgents == 10

\* total number of queue items ever created
MaxItems == 3
\* number of successful AddAgent calls that start an execution loop
MaxLoops == 2
\* number of direct "execute" requests
MaxExecs == 1
\* largest number of entries of one AddToQueue call
MaxBatch == 2
\* number of queue items created while execution loops run
RunItems == 2
\* number of agents that direct executes are aimed at
ExecAgents == 1
\* number of live agents while the process is restarted over its store
StoreAgents == 2
\* number of commands an agent settles while the process is restarted
MaxTasks == 2
\* number of connections that register with the hub
MaxConns == 2
\* number of calls of broadcastMessage
MaxPubs == 2
\* number of list queries whose result a caller still holds
MaxLists == 1

Names == {"w"}

\* width of the column agents.name (VARCHAR(255))
VarcharName == 255

\* a name of 256 characters
LongName == "nnnnnnnnnnnnnnnnnnnnnnnnnnnnnnnnnnnnnnnnnnnnnnnnnnnnnnnnnnnnnnnnnnnnnnnnnnnnnnnnnnnnnnnnnnnnnnnnnnnnnnnnnnnnnnnnnnnnnnnnnnnnnnnnnnnnnnnnnnnnnnnnnnnnnnnnnnnnnnnnnnnnnnnnnnnnnnnnnnnnnnnnnnnnnnnnnnnnnnnnnnnnnnnnnnnnnnnnnnnnnnnnnnnnnnnnnnnnnnnnnnnnnnnnnnnnnnnn"

RUNPrefix == <<"R", "U", "N", " ">>
CmdRunA == RUNPrefix \o <<"a">>
CmdRunB == RUNPrefix \o <<"b">>
CmdBare == <<"a">>
\* "RUN " and nothing after it
CmdRunEmpty == RUNPrefix

\* priorities offered to AddToQueueWithPriority
Priorities == {-1, 0, 1}

TermError == "System terminated by <END!> signal"

----------------------------------------------------------------------------
(* Helpers *)

Range(f) == {f[x] : x \in DOMAIN f}

\* strings.HasPrefix
HasPrefix(s, p) == Len(s) >= Len(p) /\ SubSeq(s, 1, Len(p)) = p

\* strings.TrimPrefix
TrimPrefix(s, p) == IF HasPrefix(s, p) THEN SubSeq(s, Len(p) + 1, Len(s)) ELSE s

Digit == <<"0", "1", "2", "3", "4", "5", "6", "7", "8", "9">>

\* fmt.Sprintf("%d", i) for i >= 0
RECURSIVE Itoa(_)
Itoa(i) == IF i < 10 THEN <<Digit[i + 1]>>
           ELSE Itoa(i \div 10) \o <<Digit[(i % 10) + 1]>>

\* outcome of `sh -c c` when sh starts: the empty command exits 0 with no
\* output, programs a and b print their name and exit 0, program f prints
\* nothing and exits 1, anything else is not found
Sh(c) == IF c = <<>> THEN [out |-> <<>>, code |-> 0, err |-> ""]
         ELSE IF c = <<"a">> THEN [out |-> <<"a">>, code |-> 0, err |-> ""]
         ELSE IF c = <<"b">> THEN [out |-> <<"b">>, code |-> 0, err |-> ""]
         ELSE IF c = <<"f">> THEN [out |-> <<>>, code |-> 1, err |-> "exit status 1"]
         ELSE [out |-> <<"?">>, code |-> 127, err |-> "exit status 127"]

\* outcome when sh cannot be started: the error is no *exec.ExitError
ShNotStarted == [out |-> <<>>, code |-> 1, err |-> "exec: sh: cannot start"]

----------------------------------------------------------------------------
(* Records *)

NoObj == [ID |-> 0, Name |-> "", Status |-> "", CurrentTask |-> <<>>,
          TasksDone |-> 0, TasksFailed |-> 0]

\* zero value of QueueItem; uid is a history field naming the enqueue that
\* created the item, no modelled code reads it
ZeroItem == [ID |-> 0, Index |-> 0, Command |-> <<>>, Status |-> "",
             Output |-> <<>>, AgentID |-> 0, Priority |-> 0, BatchID |-> 0,
             uid |-> 0]

\* zero value of CommandResult
ZeroResult == [AgentID |-> 0, Command |-> <<>>, Output |-> <<>>, Error |-> "",
               ExitCode |-> 0]

\* a *QueueItem: nil, a pointer into the current backing array, or a
\* pointer into a backing array the slice no longer uses; gen names that
\* array, slot is what its element idx holds
NilPtr == [kind |-> "nil", idx |-> 0, slot |-> ZeroItem, gen |-> 0]
LivePtr(i) == [kind |-> "live", idx |-> i, slot |-> ZeroItem, gen |-> 0]

NoRet == [op |-> "", arg |-> 0, val |-> 0]

\* the slice am.queue
Queue == SubSeq(qarr, 1, qlen)

LiveIds == DOMAIN agents

\* the Agent object of a live id
AgentOf(id) == objs[agents[id]]

ObjRefs == 1..(maxAgents + MaxLoops + MaxExecs)

\* the value a list query returned to its caller: for GetQueueList a slice
\* (live: over the backing array the queue uses, else over arr), for
\* GetAgents a slice of references; got is a history field, the content the
\* list had when it was returned
NoList == [kind |-> "none", live |-> FALSE, len |-> 0, arr |-> <<>>, gen |-> 0,
           refs |-> <<>>, got |-> <<>>]

\* the objects a goroutine points to
RefsOf(th) == {th.agent} \cup Range(th.list.refs)

\* objects no map entry and no goroutine points to are reclaimed
Collect(o, ag, th) ==
    [r \in ObjRefs |->
        IF r \in Range(ag) \/ \E t \in DOMAIN th : r \in RefsOf(th[t])
        THEN o[r] ELSE NoObj]

FreeRef(o, ag, th) ==
    CHOOSE r \in ObjRefs :
        /\ r \notin Range(ag)
        /\ \A t \in DOMAIN th : r \notin RefsOf(th[t])
        /\ \A s \in ObjRefs :
              (s \notin Range(ag) /\ \A t \in DOMAIN th : s \notin RefsOf(th[t]))
                  => r <= s

----------------------------------------------------------------------------
(* Durable store *)

AgentRow(a) == [name |-> a.Name, status |-> a.Status,
                current_task |-> a.CurrentTask,
                tasks_done |-> a.TasksDone, tasks_failed |-> a.TasksFailed]

\* saveAgentToDB: INSERT ... ON CONFLICT (id) DO UPDATE; the store refuses
\* a name wider than its column, the error is logged and nothing is written
saveAgentToDB(d, a) ==
    IF ~d.on \/ Len(a.Name) > VarcharName THEN d
    ELSE [d EXCEPT !.agents =
            [i \in DOMAIN d.agents \cup {a.ID} |->
                IF i = a.ID THEN AgentRow(a) ELSE d.agents[i]]]

\* deleteAgentFromDB
deleteAgentFromDB(d, id) ==
    IF ~d.on THEN d
    ELSE [d EXCEPT !.agents = [i \in DOMAIN d.agents \ {id} |-> d.agents[i]]]

QueueRow(it) == [idx |-> it.Index, command |-> it.Command, status |-> it.Status,
                 output |-> it.Output, agent_id |-> it.AgentID,
                 priority |-> it.Priority, batch_id |-> it.BatchID]

\* saveQueueItemToDB: the id the store assigns, 0 without a store
savedQueueItemID(d) == IF d.on THEN d.seq + 1 ELSE 0

saveQueueItemToDB(d, it) ==
    IF ~d.on THEN d
    ELSE [d EXCEPT !.seq = d.seq + 1,
                   !.queue = [i \in DOMAIN d.queue \cup {d.seq + 1} |->
                                IF i = d.seq + 1 THEN QueueRow(it) ELSE d.queue[i]]]

\* updateQueueItemInDB: UPDATE queue SET status, output, agent_id WHERE id
updateQueueItemInDB(d, it) ==
    IF ~d.on \/ it.ID \notin DOMAIN d.queue THEN d
    ELSE [d EXCEPT !.queue[it.ID] =
            [@ EXCEPT !.status = it.Status, !.output = it.Output,
                      !.agent_id = it.AgentID]]

\* deleteQueueItemFromDB
deleteQueueItemFromDB(d, id) ==
    IF ~d.on THEN d
    ELSE [d EXCEPT !.queue = [i \in DOMAIN d.queue \ {id} |-> d.queue[i]]]

\* loadStateFromDB: the Agent scanned from the row of id
loadAgent(d, id) ==
    [ID |-> id, Name |-> d.agents[id].name, Status |-> d.agents[id].status,
     CurrentTask |-> d.agents[id].current_task,
     TasksDone |-> d.agents[id].tasks_done,
     TasksFailed |-> d.agents[id].tasks_failed]

\* loadStateFromDB: SELECT ... FROM agents, into the map
loadAgents(d) ==
    IF ~d.on THEN <<>> ELSE [id \in DOMAIN d.agents |-> loadAgent(d, id)]

\* the row that ORDER BY priority DESC, id ASC puts first among ids
firstRow(d, ids) ==
    CHOOSE i \in ids : \A k \in ids :
        \/ d.queue[k].priority < d.queue[i].priority
        \/ d.queue[k].priority = d.queue[i].priority /\ i <= k

\* the QueueItem scanned from the row of id; the store numbers the rows in
\* the order the items were created
loadItem(d, id) ==
    [ID |-> id, Index |-> d.queue[id].idx, Command |-> d.queue[id].command,
     Status |-> d.queue[id].status, Output |-> d.queue[id].output,
     AgentID |-> d.queue[id].agent_id, Priority |-> d.queue[id].priority,
     BatchID |-> d.queue[id].batch_id, uid |-> id]

\* rows ids in the order of the query
RECURSIVE orderedItems(_, _)
orderedItems(d, ids) ==
    IF ids = {} THEN <<>>
    ELSE LET i == firstRow(d, ids)
         IN <<loadItem(d, i)>> \o orderedItems(d, ids \ {i})

\* load that takes the completed rows as well
loadQueueWithCompleted(d) ==
    IF ~d.on THEN <<>>
    ELSE orderedItems(d, DOMAIN d.queue)

\* loadStateFromDB: SELECT ... FROM queue WHERE status != 'completed'
loadQueue(d) ==
    IF ~d.on THEN <<>>
    ELSE orderedItems(d, {i \in DOMAIN d.queue : d.queue[i].status # "completed"})

----------------------------------------------------------------------------
(* Construction *)

Init ==
    /\ agents = <<>>
    /\ objs = [r \in ObjRefs |-> NoObj]
    /\ qarr = <<>>
    /\ qlen = 0
    /\ threads = <<>>
    /\ running = TRUE
    /\ terminated = FALSE
    /\ termpc = "idle"
    /\ db \in {[on |-> o, agents |-> <<>>, queue |-> <<>>, seq |-> 0] : o \in BOOLEAN}
    /\ nextUid = 1
    /\ published = <<>>
    /\ ret = NoRet
    /\ clients = {}
    /\ closed = {}
    /\ pubs = <<>>
    /\ handlers = {}

----------------------------------------------------------------------------
(* Agent registry *)

\* id search that never goes back to an id below the largest one in use
firstFreeIdNoReuse(ids, id) ==
    IF ids = {} THEN id ELSE (CHOOSE m \in ids : \A k \in ids : k <= m) + 1

\* the id search of AddAgent: the first id >= 1 that is not in the map
RECURSIVE firstFreeId(_, _)
firstFreeId(ids, id) == IF id \notin ids THEN id ELSE firstFreeId(ids, id + 1)

\* capacity test that lets one agent too many in
AddAgentFullOffByOne == Cardinality(LiveIds) > maxAgents

AddAgentFull == Cardinality(LiveIds) >= maxAgents

\* AgentManager.AddAgent
AddAgent(name) ==
    IF AddAgentFull
    THEN /\ ret' = [op |-> "AddAgent", arg |-> name, val |-> 0]
         /\ published' = <<>>
         /\ UNCHANGED <<agents, objs, db>>
    ELSE LET id == firstFreeId(LiveIds, 1)
             r == FreeRef(objs, agents, threads)
             agent == [ID |-> id, Name |-> name, Status |-> "idle",
                       CurrentTask |-> <<>>, TasksDone |-> 0, TasksFailed |-> 0]
         IN /\ agents' = [i \in LiveIds \cup {id} |-> IF i = id THEN r ELSE agents[i]]
            /\ objs' = [objs EXCEPT ![r] = agent]
            /\ db' = saveAgentToDB(db, agent)
            /\ published' = <<[Type |-> "agent_added", Payload |-> id]>>
            /\ ret' = [op |-> "AddAgent", arg |-> name, val |-> id]

\* removal that reports success and leaves the agent in the map
RemoveAgentKeepsEntry(id) ==
    IF id \in LiveIds
    THEN /\ db' = deleteAgentFromDB(db, id)
         /\ published' = <<[Type |-> "agent_removed", Payload |-> id]>>
         /\ ret' = [op |-> "RemoveAgent", arg |-> id, val |-> TRUE]
         /\ UNCHANGED <<agents, objs>>
    ELSE /\ ret' = [op |-> "RemoveAgent", arg |-> id, val |-> FALSE]
         /\ published' = <<>>
         /\ UNCHANGED <<agents, objs, db>>

\* AgentManager.RemoveAgent
RemoveAgent(id) ==
    IF id \in LiveIds
    THEN /\ agents' = [i \in LiveIds \ {id} |-> agents[i]]
         /\ objs' = Collect(objs, agents', threads)
         /\ db' = deleteAgentFromDB(db, id)
         /\ published' = <<[Type |-> "agent_removed", Payload |-> id]>>
         /\ ret' = [op |-> "RemoveAgent", arg |-> id, val |-> TRUE]
    ELSE /\ ret' = [op |-> "RemoveAgent", arg |-> id, val |-> FALSE]
         /\ published' = <<>>
         /\ UNCHANGED <<agents, objs, db>>

\* the registry API called on its own (no loop is started)
CallAddAgent ==
    \E name \in Names :
        /\ AddAgent(name)
        /\ UNCHANGED <<qarr, qlen, threads, running, terminated, termpc, nextUid, hub>>

CallRemoveAgent ==
    \E id \in 0..(maxAgents + 1) :
        /\ RemoveAgent(id)
        /\ UNCHANGED <<qarr, qlen, threads, running, terminated, termpc, nextUid, hub>>

NextReg == CallAddAgent \/ CallRemoveAgent

SpecReg == Init /\ [][NextReg]_vars

----------------------------------------------------------------------------
(* Task queue: am.queue is a slice over the backing array qarr *)

\* a goroutine's pointer or slice into a backing array that the slice
\* am.queue abandons keeps reading that one array, named gen from then on:
\* every holder carries what the array holds
Retire(th, arr, gen) ==
    [t \in DOMAIN th |->
        [th[t] EXCEPT
            !.item = IF @.kind = "live"
                     THEN [kind |-> "stale", idx |-> @.idx, slot |-> arr[@.idx],
                           gen |-> gen]
                     ELSE @,
            !.list = IF @.live
                     THEN [@ EXCEPT !.live = FALSE, !.arr = arr, !.gen = gen]
                     ELSE @]]

\* item.AgentID = id through the pointer p into an abandoned array: the
\* write is seen through every pointer to that element and every slice
\* over that array
WriteAgentID(th, p, id) ==
    [t \in DOMAIN th |->
        [th[t] EXCEPT
            !.item = IF @.kind = "stale" /\ @.gen = p.gen /\ @.idx = p.idx
                     THEN [@ EXCEPT !.slot.AgentID = id]
                     ELSE @,
            !.list = IF @.kind = "queue" /\ ~@.live /\ @.gen = p.gen
                     THEN [@ EXCEPT !.arr[p.idx].AgentID = id]
                     ELSE @]]

\* capacity after append outgrows the backing array
grownCap(cap) == IF cap = 0 THEN 1 ELSE 2 * cap

\* am.queue = append(am.queue, it) on s = [arr, len, th, d, uid]
appendItem(s, it) ==
    IF s.len < Len(s.arr)
    THEN [s EXCEPT !.arr[s.len + 1] = it, !.len = s.len + 1]
    ELSE [s EXCEPT
            !.arr = [k \in 1..grownCap(Len(s.arr)) |->
                        IF k <= s.len THEN s.arr[k]
                        ELSE IF k = s.len + 1 THEN it ELSE ZeroItem],
            !.len = s.len + 1,
            !.th = Retire(s.th, s.arr, s.uid)]

\* enqueue that appends the item only when the store has saved it
enqueueItemSavedOnly(s, index, cmd, prio, batch) ==
    LET item == [ID |-> 0, Index |-> index, Command |-> cmd,
                 Status |-> "pending", Output |-> <<>>, AgentID |-> 0,
                 Priority |-> prio, BatchID |-> batch, uid |-> s.uid]
        saved == [item EXCEPT !.ID = savedQueueItemID(s.d)]
        t == [s EXCEPT !.d = saveQueueItemToDB(s.d, item), !.uid = s.uid + 1]
    IN IF saved.ID = 0 THEN t ELSE appendItem(t, saved)

\* one enqueue: build the item, save it (the store assigns ID), append it
enqueueItem(s, index, cmd, prio, batch) ==
    LET item == [ID |-> 0, Index |-> index, Command |-> cmd,
                 Status |-> "pending", Output |-> <<>>, AgentID |-> 0,
                 Priority |-> prio, BatchID |-> batch, uid |-> s.uid]
        saved == [item EXCEPT !.ID = savedQueueItemID(s.d)]
    IN appendItem([s EXCEPT !.d = saveQueueItemToDB(s.d, item),
                            !.uid = s.uid + 1], saved)

\* the loop of AddToQueue from slot i on
RECURSIVE addToQueueFrom(_, _, _, _, _)
addToQueueFrom(s, commands, baseIndex, batch, i) ==
    IF i > Cardinality(DOMAIN commands) THEN s
    ELSE IF Itoa(i) \in DOMAIN commands
         THEN addToQueueFrom(enqueueItem(s, baseIndex + i, commands[Itoa(i)], 0, batch),
                             commands, baseIndex, batch, i + 1)
         ELSE addToQueueFrom(s, commands, baseIndex, batch, i + 1)

QueueState == [arr |-> qarr, len |-> qlen, th |-> threads, d |-> db, uid |-> nextUid]

QueueUpdated(arr, len) == [Type |-> "queue_updated", Payload |-> SubSeq(arr, 1, len)]

\* AgentManager.AddToQueue; the batch id stands for the time of the call
AddToQueue(commands) ==
    LET s == addToQueueFrom(QueueState, commands, qlen, nextUid, 1)
    IN /\ s.uid - 1 <= MaxItems
       /\ qarr' = s.arr
       /\ qlen' = s.len
       /\ threads' = s.th
       /\ db' = s.d
       /\ nextUid' = s.uid
       /\ published' = <<QueueUpdated(s.arr, s.len)>>
       /\ ret' = [op |-> "AddToQueue", arg |-> Cardinality(DOMAIN commands), val |-> 0]

\* AgentManager.AddToQueueWithPriority
AddToQueueWithPriority(command, priority) ==
    LET s == enqueueItem(QueueState, qlen + 1, command, priority, 0)
    IN /\ s.uid - 1 <= MaxItems
       /\ qarr' = s.arr
       /\ qlen' = s.len
       /\ threads' = s.th
       /\ db' = s.d
       /\ nextUid' = s.uid
       /\ published' = <<QueueUpdated(s.arr, s.len)>>
       /\ ret' = [op |-> "AddToQueueWithPriority", arg |-> priority, val |-> 0]

\* position of the first item of q carrying index, 0 when there is none
RECURSIVE findIndex(_, _, _)
findIndex(q, index, i) ==
    IF i > Len(q) THEN 0
    ELSE IF q[i].Index = index THEN i ELSE findIndex(q, index, i + 1)

\* deletion that drops the item after position i instead of the item at i
removeAtNext(arr, len, i) ==
    [k \in 1..Len(arr) |-> IF k > i /\ k < len THEN arr[k + 1] ELSE arr[k]]

\* append(am.queue[:i], am.queue[i+1:]...): the tail moves down in place,
\* the slot behind the new end keeps its old content
removeAt(arr, len, i) ==
    [k \in 1..Len(arr) |-> IF k >= i /\ k < len THEN arr[k + 1] ELSE arr[k]]

\* removal that publishes the queue as it was before the deletion
RemoveFromQueueStalePayload(index) ==
    LET i == findIndex(Queue, index, 1)
    IN IF i > 0
       THEN /\ db' = deleteQueueItemFromDB(db, qarr[i].ID)
            /\ qarr' = removeAt(qarr, qlen, i)
            /\ qlen' = qlen - 1
            /\ published' = <<QueueUpdated(qarr, qlen)>>
            /\ ret' = [op |-> "RemoveFromQueue", arg |-> index, val |-> TRUE]
       ELSE /\ ret' = [op |-> "RemoveFromQueue", arg |-> index, val |-> FALSE]
            /\ published' = <<>>
            /\ UNCHANGED <<qarr, qlen, db>>

\* AgentManager.RemoveFromQueue
RemoveFromQueue(index) ==
    LET i == findIndex(Queue, index, 1)
    IN IF i > 0
       THEN /\ db' = deleteQueueItemFromDB(db, qarr[i].ID)
            /\ qarr' = removeAt(qarr, qlen, i)
            /\ qlen' = qlen - 1
            /\ published' = <<QueueUpdated(qarr', qlen')>>
            /\ ret' = [op |-> "RemoveFromQueue", arg |-> index, val |-> TRUE]
       ELSE /\ ret' = [op |-> "RemoveFromQueue", arg |-> index, val |-> FALSE]
            /\ published' = <<>>
            /\ UNCHANGED <<qarr, qlen, db>>

\* the scan of GetNextQueueItem from position i on: position of the best
\* item so far (0: none) and its priority
RECURSIVE scanBest(_, _, _, _)
scanBest(q, i, bestIdx, bestPriority) ==
    IF i > Len(q) THEN bestIdx
    ELSE IF q[i].Status = "pending" /\ q[i].Priority > bestPriority
         THEN scanBest(q, i + 1, i, q[i].Priority)
         ELSE scanBest(q, i + 1, bestIdx, bestPriority)

bestIdxOf(q) == scanBest(q, 1, 0, -1)

\* claim that returns the best pending item without flipping it to running
GetNextQueueItemNoFlip(p) ==
    LET b == bestIdxOf(Queue)
    IN /\ p = IF b > 0 THEN LivePtr(b) ELSE NilPtr
       /\ UNCHANGED <<qarr, qlen, db>>

\* AgentManager.GetNextQueueItem: the pointer it returns
GetNextQueueItem(p) ==
    LET b == bestIdxOf(Queue)
    IN IF b > 0
       THEN /\ p = LivePtr(b)
            /\ qarr' = [qarr EXCEPT ![b].Status = "running"]
            /\ db' = updateQueueItemInDB(db, qarr'[b])
            /\ UNCHANGED qlen
       ELSE /\ p = NilPtr
            /\ UNCHANGED <<qarr, qlen, db>>

\* the loop of GetNextBatch from position i on, over [arr, d, batch]: every
\* pending item met while the batch is short of batchSize is flipped to
\* running, its row updated and a copy of it appended to the batch
RECURSIVE batchFrom(_, _, _, _)
batchFrom(s, len, batchSize, i) ==
    IF i > len THEN s
    ELSE IF s.arr[i].Status = "pending" /\ Len(s.batch) < batchSize
         THEN LET flipped == [s.arr EXCEPT ![i].Status = "running"]
              IN batchFrom([arr |-> flipped,
                            d |-> updateQueueItemInDB(s.d, flipped[i]),
                            batch |-> Append(s.batch, flipped[i])],
                           len, batchSize, i + 1)
         ELSE batchFrom(s, len, batchSize, i + 1)

\* AgentManager.GetNextBatch
GetNextBatch(batchSize) ==
    LET s == batchFrom([arr |-> qarr, d |-> db, batch |-> <<>>], qlen, batchSize, 1)
    IN /\ qarr' = s.arr
       /\ db' = s.d
       /\ ret' = [op |-> "GetNextBatch", arg |-> batchSize, val |-> s.batch]
       /\ UNCHANGED qlen

RECURSIVE deleteAllFromDB(_, _, _)
deleteAllFromDB(d, q, i) ==
    IF i > Len(q) THEN d
    ELSE deleteAllFromDB(deleteQueueItemFromDB(d, q[i].ID), q, i + 1)

\* locals of a goroutine; claimed and ran are history fields: the uid of the
\* item the goroutine's last GetNextQueueItem flipped to running, and the uid
\* of the item whose command it passed to ExecuteCommand
NewThread(kind, id, pc, command) ==
    [kind |-> kind, agentID |-> id, pc |-> pc, item |-> NilPtr,
     command |-> command, agent |-> 0, exists |-> FALSE,
     result |-> ZeroResult, spawned |-> 0, index |-> 0, claimed |-> 0,
     ran |-> 0, list |-> NoList]

\* handlers of "clear" that have emptied the queue
Clears == {t \in DOMAIN threads : threads[t].kind = "clear"}

\* the goroutines with one more handler of "clear" about to publish; the
\* record of a handler that has returned is used again
withClear(th) ==
    IF \E t \in DOMAIN th : th[t].kind = "clear"
    THEN [t \in DOMAIN th |->
             IF th[t].kind = "clear" THEN [th[t] EXCEPT !.pc = "publish"] ELSE th[t]]
    ELSE Append(th, NewThread("clear", 0, "publish", <<>>))

\* handleChat, mode /queue, "clear", under the queue lock: the rows are
\* deleted and am.queue is a new empty slice
QueueClear ==
    /\ \A t \in Clears : threads[t].pc = "done"
    /\ db' = deleteAllFromDB(db, Queue, 1)
    /\ qarr' = <<>>
    /\ qlen' = 0
    /\ threads' = withClear(Retire(threads, qarr, 0 - nextUid))
    /\ published' = <<>>
    /\ ret' = [op |-> "QueueClear", arg |-> 0, val |-> 0]

\* handleChat, mode /queue, "clear", after the queue lock is released:
\* queue_updated is broadcast with the queue as it is read then
QueueClearPublish(t) ==
    /\ threads[t].kind = "clear"
    /\ threads[t].pc = "publish"
    /\ threads' = [threads EXCEPT ![t].pc = "done"]
    /\ published' = <<QueueUpdated(qarr, qlen)>>
    /\ ret' = NoRet
    /\ UNCHANGED <<agents, objs, qarr, qlen, running, terminated, termpc, db,
                   nextUid, hub>>

\* slot keys of an AddToQueue request
KeyPool == {Itoa(i) : i \in 1..(MaxBatch + 1)}

CommandMaps(cmds) ==
    UNION {[K -> cmds] : K \in {S \in SUBSET KeyPool : Cardinality(S) <= MaxBatch}}

\* requests whose slot keys are "1" .. "n"
BatchMaps(cmds) == UNION {[{Itoa(i) : i \in 1..n} -> cmds] : n \in 1..MaxBatch}

\* command texts offered to the queue API called on its own
QueueCommands == {CmdRunA}

IndexPool == 0..(MaxItems + MaxBatch - 1)

CallAddToQueue ==
    \E commands \in CommandMaps(QueueCommands) :
        /\ AddToQueue(commands)
        /\ UNCHANGED <<agents, objs, running, terminated, termpc, hub>>

CallAddToQueueWithPriority ==
    \E command \in QueueCommands, priority \in Priorities :
        /\ AddToQueueWithPriority(command, priority)
        /\ UNCHANGED <<agents, objs, running, terminated, termpc, hub>>

CallRemoveFromQueue ==
    \E index \in IndexPool :
        /\ RemoveFromQueue(index)
        /\ UNCHANGED <<agents, objs, threads, running, terminated, termpc, nextUid, hub>>

CallQueueClear ==
    /\ QueueClear
    /\ UNCHANGED <<agents, objs, running, terminated, termpc, nextUid, hub>>

CallQueueClearPublish == \E t \in DOMAIN threads : QueueClearPublish(t)

\* GetNextQueueItem called on its own
CallGetNextQueueItem ==
    \E p \in {NilPtr} \cup {LivePtr(i) : i \in 1..qlen} :
        /\ GetNextQueueItem(p)
        /\ ret' = [op |-> "GetNextQueueItem", arg |-> 0, val |-> p]
        /\ published' = <<>>
        /\ UNCHANGED <<agents, objs, threads, running, terminated, termpc, nextUid, hub>>

NextQueue ==
    \/ CallAddToQueue
    \/ CallAddToQueueWithPriority
    \/ CallRemoveFromQueue
    \/ CallQueueClear
    \/ CallQueueClearPublish
    \/ CallGetNextQueueItem

SpecQueue == Init /\ [][NextQueue]_vars

----------------------------------------------------------------------------
(* Goroutines: execution loops (StartAgentLoop) and direct executes *)

Loops == {t \in DOMAIN threads : threads[t].kind = "loop"}
\* add_agent handlers that are about to call StartAgentLoop
Starting == {t \in DOMAIN threads : threads[t].kind = "handler"}
Execs == {t \in DOMAIN threads : threads[t].kind = "exec"}

\* *item for the pointer a goroutine holds
Deref(p) == IF p.kind = "live" THEN qarr[p.idx] ELSE p.slot

\* where ExecuteCommand returns to
AfterExecute(th) == IF th.kind = "loop" THEN "settle" ELSE "done"

\* loop test that reads am.terminated alone
LoopCheckIgnoresRunning(t) ==
    /\ threads[t].pc = "check"
    /\ threads' = [threads EXCEPT ![t].pc =
                      IF ~terminated THEN "claim" ELSE "exited"]
    /\ published' = <<>>
    /\ ret' = NoRet
    /\ UNCHANGED <<agents, objs, qarr, qlen, running, terminated, termpc, db,
                   nextUid, hub>>

\* for am.running && !am.terminated
LoopCheck(t) ==
    /\ threads[t].pc = "check"
    /\ threads' = [threads EXCEPT ![t].pc =
                      IF running /\ ~terminated THEN "claim" ELSE "exited"]
    /\ published' = <<>>
    /\ ret' = NoRet
    /\ UNCHANGED <<agents, objs, qarr, qlen, running, terminated, termpc, db,
                   nextUid, hub>>

\* item := am.GetNextQueueItem(); nil: sleep and check again
LoopClaim(t) ==
    /\ threads[t].pc = "claim"
    /\ \E p \in {NilPtr} \cup {LivePtr(i) : i \in 1..qlen} :
          /\ GetNextQueueItem(p)
          /\ threads' = [threads EXCEPT
                ![t].item = p,
                ![t].claimed = IF p = NilPtr THEN 0 ELSE qarr[p.idx].uid,
                ![t].pc = IF p = NilPtr THEN "check" ELSE "stamp"]
    /\ published' = <<>>
    /\ ret' = NoRet
    /\ UNCHANGED <<agents, objs, running, terminated, termpc, nextUid, hub>>

\* item.AgentID = agentID; am.updateQueueItemInDB(item), under the queue lock
LoopStamp(t) ==
    /\ threads[t].pc = "stamp"
    /\ LET p == threads[t].item
           stamped == [Deref(p) EXCEPT !.AgentID = threads[t].agentID]
       IN /\ qarr' = IF p.kind = "live" THEN [qarr EXCEPT ![p.idx] = stamped] ELSE qarr
          /\ threads' = [IF p.kind = "live" THEN threads
                          ELSE WriteAgentID(threads, p, threads[t].agentID)
                             EXCEPT ![t].pc = "call"]
          /\ db' = updateQueueItemInDB(db, stamped)
    /\ published' = <<>>
    /\ ret' = NoRet
    /\ UNCHANGED <<agents, objs, qlen, running, terminated, termpc, nextUid, hub>>

\* the argument item.Command of the call of ExecuteCommand
LoopCall(t) ==
    /\ threads[t].pc = "call"
    /\ threads' = [threads EXCEPT ![t].command = Deref(threads[t].item).Command,
                                  ![t].ran = Deref(threads[t].item).uid,
                                  ![t].result = ZeroResult,
                                  ![t].spawned = 0,
                                  ![t].pc = "e0"]
    /\ published' = <<>>
    /\ ret' = NoRet
    /\ UNCHANGED <<agents, objs, qarr, qlen, running, terminated, termpc, db,
                   nextUid, hub>>

\* entry of ExecuteCommand without the test of am.terminated
ExecEntryUnchecked(t) ==
    /\ threads[t].pc = "e0"
    /\ threads' = [threads EXCEPT ![t].result = ZeroResult, ![t].pc = "e1"]
    /\ published' = <<>>
    /\ ret' = NoRet
    /\ UNCHANGED <<agents, objs, qarr, qlen, running, terminated, termpc, db,
                   nextUid, hub>>

\* ExecuteCommand: if am.terminated return the fixed error result
ExecEntry(t) ==
    /\ threads[t].pc = "e0"
    /\ threads' = [threads EXCEPT
          ![t].result = IF terminated
                        THEN [ZeroResult EXCEPT !.AgentID = threads[t].agentID,
                                                !.Command = threads[t].command,
                                                !.Error = TermError]
                        ELSE ZeroResult,
          ![t].pc = IF terminated THEN AfterExecute(threads[t]) ELSE "e1"]
    /\ published' = <<>>
    /\ ret' = NoRet
    /\ UNCHANGED <<agents, objs, qarr, qlen, running, terminated, termpc, db,
                   nextUid, hub>>

\* entry that records the command and leaves the status of the agent
ExecBeginKeepsStatus(t) ==
    /\ threads[t].pc = "e1"
    /\ LET id == threads[t].agentID
           exists == id \in LiveIds
           r == IF exists THEN agents[id] ELSE 0
       IN /\ objs' = IF exists
                      THEN [objs EXCEPT ![r].CurrentTask = threads[t].command]
                      ELSE objs
          /\ db' = IF exists THEN saveAgentToDB(db, objs'[r]) ELSE db
          /\ threads' = [threads EXCEPT ![t].agent = r, ![t].exists = exists,
                                        ![t].pc = "e2"]
          /\ published' = <<>>
          /\ ret' = NoRet
    /\ UNCHANGED <<agents, qarr, qlen, running, terminated, termpc, nextUid, hub>>

\* ExecuteCommand: mark the agent running under the agent lock
ExecBegin(t) ==
    /\ threads[t].pc = "e1"
    /\ LET id == threads[t].agentID
           exists == id \in LiveIds
           r == IF exists THEN agents[id] ELSE 0
       IN /\ objs' = IF exists
                      THEN [objs EXCEPT ![r].Status = "running",
                                        ![r].CurrentTask = threads[t].command]
                      ELSE objs
          /\ db' = IF exists THEN saveAgentToDB(db, objs'[r]) ELSE db
          /\ threads' = [threads EXCEPT ![t].agent = r, ![t].exists = exists,
                                        ![t].pc = "e2"]
          /\ published' = <<>>
          /\ ret' = NoRet
    /\ UNCHANGED <<agents, qarr, qlen, running, terminated, termpc, nextUid, hub>>

\* AgentManager.validateCommand
validateCommand(command) ==
    IF HasPrefix(command, RUNPrefix)
    THEN [cmd |-> TrimPrefix(command, RUNPrefix), valid |-> TRUE]
    ELSE [cmd |-> <<>>, valid |-> FALSE]

\* ExecuteCommand, from validateCommand to the exit code: the command to
\* spawn (spawn = 1) or the format error result (spawn = 0)
executeDecision(command) ==
    LET v == validateCommand(command)
    IN IF ~v.valid
       THEN IF ~HasPrefix(command, RUNPrefix)
            THEN [spawn |-> 1, actual |-> command]
            ELSE [spawn |-> 0, actual |-> v.cmd]
       ELSE [spawn |-> 1, actual |-> v.cmd]

\* the payload of agent_status: the Agent the goroutine's pointer designates
\* as it is when the message is written, NoObj for the nil pointer
agentPayload(th) == IF th.exists THEN objs[th.agent] ELSE NoObj

\* ExecuteCommand: the broadcast of the agent as it is now, after the agent
\* lock is released
ExecPublishBegin(t) ==
    /\ threads[t].pc = "e2"
    /\ threads' = [threads EXCEPT ![t].pc = "spawn"]
    /\ published' = <<[Type |-> "agent_status", Payload |-> agentPayload(threads[t])]>>
    /\ ret' = NoRet
    /\ UNCHANGED <<agents, objs, qarr, qlen, running, terminated, termpc, db,
                   nextUid, hub>>

\* the result ExecuteCommand starts from
baseResult(th) == [ZeroResult EXCEPT !.AgentID = th.agentID, !.Command = th.command]

\* ExecuteCommand from validateCommand to the start of the subprocess: the
\* format error is returned, or cmd.CombinedOutput has started sh and waits
\* for its end
ExecStart(t) ==
    /\ threads[t].pc = "spawn"
    /\ LET th == threads[t]
           dec == executeDecision(th.command)
       IN IF dec.spawn = 0
          THEN threads' = [threads EXCEPT
                  ![t].result = [baseResult(th) EXCEPT
                                   !.Error = "Invalid command format. Use: RUN <command>",
                                   !.ExitCode = 1],
                  ![t].agent = 0,
                  ![t].pc = AfterExecute(th)]
          ELSE threads' = [threads EXCEPT
                  ![t].result = baseResult(th),
                  ![t].spawned = 1,
                  ![t].pc = "wait"]
    /\ objs' = Collect(objs, agents, threads')
    /\ published' = <<>>
    /\ ret' = NoRet
    /\ UNCHANGED <<agents, qarr, qlen, running, terminated, termpc, db, nextUid, hub>>

\* cmd.CombinedOutput fails to start sh: no subprocess, the error is no
\* *exec.ExitError and the exit code is 1
ExecRunNotStarted(t) ==
    /\ threads[t].pc = "spawn"
    /\ executeDecision(threads[t].command).spawn = 1
    /\ threads' = [threads EXCEPT
          ![t].result = [baseResult(threads[t]) EXCEPT
                           !.Output = ShNotStarted.out, !.Error = ShNotStarted.err,
                           !.ExitCode = ShNotStarted.code],
          ![t].pc = "e3"]
    /\ published' = <<>>
    /\ ret' = NoRet
    /\ UNCHANGED <<agents, objs, qarr, qlen, running, terminated, termpc, db,
                   nextUid, hub>>

\* the subprocess ends: cmd.CombinedOutput returns its output and exit code
ExecRun(t) ==
    /\ threads[t].pc = "wait"
    /\ LET out == Sh(executeDecision(threads[t].command).actual)
       IN threads' = [threads EXCEPT
             ![t].result = [@ EXCEPT !.Output = out.out, !.Error = out.err,
                                     !.ExitCode = out.code],
             ![t].pc = "e3"]
    /\ published' = <<>>
    /\ ret' = NoRet
    /\ UNCHANGED <<agents, objs, qarr, qlen, running, terminated, termpc, db,
                   nextUid, hub>>

\* settling that counts every command as done, whatever its exit code
ExecFinishCountsDone(t) ==
    /\ threads[t].pc = "e3"
    /\ LET th == threads[t]
           r == th.agent
           settled == [objs[r] EXCEPT
                         !.Status = "idle",
                         !.CurrentTask = <<>>,
                         !.TasksDone = @ + 1]
       IN /\ threads' = [threads EXCEPT ![t].pc = "e4"]
          /\ objs' = IF th.exists THEN [objs EXCEPT ![r] = settled] ELSE objs
          /\ db' = IF th.exists THEN saveAgentToDB(db, settled) ELSE db
          /\ published' = <<>>
          /\ ret' = NoRet
    /\ UNCHANGED <<agents, qarr, qlen, running, terminated, termpc, nextUid, hub>>

\* ExecuteCommand: settle the agent under the agent lock
ExecFinish(t) ==
    /\ threads[t].pc = "e3"
    /\ LET th == threads[t]
           r == th.agent
           settled == [objs[r] EXCEPT
                         !.Status = "idle",
                         !.CurrentTask = <<>>,
                         !.TasksDone = IF th.result.ExitCode = 0 THEN @ + 1 ELSE @,
                         !.TasksFailed = IF th.result.ExitCode = 0 THEN @ ELSE @ + 1]
       IN /\ threads' = [threads EXCEPT ![t].pc = "e4"]
          /\ objs' = IF th.exists THEN [objs EXCEPT ![r] = settled] ELSE objs
          /\ db' = IF th.exists THEN saveAgentToDB(db, settled) ELSE db
          /\ published' = <<>>
          /\ ret' = NoRet
    /\ UNCHANGED <<agents, qarr, qlen, running, terminated, termpc, nextUid, hub>>

\* ExecuteCommand: the broadcast of the result, after the log is written
ExecPublishResult(t) ==
    /\ threads[t].pc = "e4"
    /\ threads' = [threads EXCEPT ![t].pc = "e5"]
    /\ published' = <<[Type |-> "command_result", Payload |-> threads[t].result]>>
    /\ ret' = NoRet
    /\ UNCHANGED <<agents, objs, qarr, qlen, running, terminated, termpc, db,
                   nextUid, hub>>

\* ExecuteCommand: the broadcast of the agent as it is now, and the return
ExecPublishStatus(t) ==
    /\ threads[t].pc = "e5"
    /\ threads' = [threads EXCEPT ![t].agent = 0, ![t].exists = FALSE,
                                  ![t].pc = AfterExecute(threads[t])]
    /\ objs' = Collect(objs, agents, threads')
    /\ published' = <<[Type |-> "agent_status", Payload |-> agentPayload(threads[t])]>>
    /\ ret' = NoRet
    /\ UNCHANGED <<agents, qarr, qlen, running, terminated, termpc, db, nextUid, hub>>

\* the argument item.Index of the call of CompleteQueueItem
LoopSettle(t) ==
    /\ threads[t].pc = "settle"
    /\ threads' = [threads EXCEPT ![t].index = Deref(threads[t].item).Index,
                                  ![t].pc = "complete"]
    /\ published' = <<>>
    /\ ret' = NoRet
    /\ UNCHANGED <<agents, objs, qarr, qlen, running, terminated, termpc, db,
                   nextUid, hub>>

\* completion that sets the status and drops the output
CompleteQueueItemNoOutput(index, output, success) ==
    LET i == findIndex(Queue, index, 1)
    IN IF i > 0
       THEN /\ qarr' = [qarr EXCEPT ![i].Status = IF success THEN "completed" ELSE "failed"]
            /\ db' = updateQueueItemInDB(db, qarr'[i])
       ELSE UNCHANGED <<qarr, db>>

\* AgentManager.CompleteQueueItem
CompleteQueueItem(index, output, success) ==
    LET i == findIndex(Queue, index, 1)
    IN IF i > 0
       THEN /\ qarr' = [qarr EXCEPT ![i].Status = IF success THEN "completed" ELSE "failed",
                                    ![i].Output = output]
            /\ db' = updateQueueItemInDB(db, qarr'[i])
       ELSE UNCHANGED <<qarr, db>>

\* loop that returns after a command that failed
LoopCompleteStopsOnFailure(t) ==
    /\ threads[t].pc = "complete"
    /\ CompleteQueueItem(threads[t].index, threads[t].result.Output,
                         threads[t].result.ExitCode = 0)
    /\ threads' = [threads EXCEPT ![t] =
          NewThread("loop", threads[t].agentID,
                    IF threads[t].result.ExitCode = 0 THEN "check" ELSE "exited",
                    <<>>)]
    /\ published' = <<>>
    /\ ret' = NoRet
    /\ UNCHANGED <<agents, objs, qlen, running, terminated, termpc, nextUid, hub>>

\* am.CompleteQueueItem(...); sleep; next iteration
LoopComplete(t) ==
    /\ threads[t].pc = "complete"
    /\ CompleteQueueItem(threads[t].index, threads[t].result.Output,
                         threads[t].result.ExitCode = 0)
    /\ threads' = [threads EXCEPT ![t] =
          NewThread("loop", threads[t].agentID, "check", <<>>)]
    /\ published' = <<>>
    /\ ret' = NoRet
    /\ UNCHANGED <<agents, objs, qlen, running, terminated, termpc, nextUid, hub>>

\* the steps of ExecuteCommand, for whichever goroutine is at them
ExecSteps ==
    \/ \E t \in DOMAIN threads : ExecEntry(t)
    \/ \E t \in DOMAIN threads : ExecBegin(t)
    \/ \E t \in DOMAIN threads : ExecPublishBegin(t)
    \/ \E t \in DOMAIN threads : ExecStart(t)
    \/ \E t \in DOMAIN threads : ExecRunNotStarted(t)
    \/ \E t \in DOMAIN threads : ExecRun(t)
    \/ \E t \in DOMAIN threads : ExecFinish(t)
    \/ \E t \in DOMAIN threads : ExecPublishResult(t)
    \/ \E t \in DOMAIN threads : ExecPublishStatus(t)

\* handleMessage "add_agent", manager.StartAgentLoop(agent.ID): the loop's
\* goroutine is started, the handler returns
StartAgentLoop(t) ==
    /\ threads[t].kind = "handler"
    /\ threads[t].pc = "start"
    /\ threads' = [threads EXCEPT ![t] =
          NewThread("loop", threads[t].agentID, "check", <<>>)]
    /\ published' = <<>>
    /\ ret' = NoRet
    /\ UNCHANGED <<agents, objs, qarr, qlen, running, terminated, termpc, db,
                   nextUid, hub>>

\* the steps of the goroutine of StartAgentLoop
LoopSteps ==
    \/ \E t \in DOMAIN threads : StartAgentLoop(t)
    \/ \E t \in DOMAIN threads : LoopCheck(t)
    \/ \E t \in DOMAIN threads : LoopClaim(t)
    \/ \E t \in DOMAIN threads : LoopStamp(t)
    \/ \E t \in DOMAIN threads : LoopCall(t)
    \/ \E t \in DOMAIN threads : LoopSettle(t)
    \/ \E t \in DOMAIN threads : LoopComplete(t)

ThreadStep == LoopSteps \/ ExecSteps

----------------------------------------------------------------------------
(* Request handlers *)

\* handler that goes on to StartAgentLoop whether or not AddAgent returned
\* an agent
handleAddAgentAlwaysLoop(name) ==
    /\ AddAgent(name)
    /\ threads' = Append(threads, NewThread("handler", ret'.val, "start", <<>>))
    /\ UNCHANGED <<qarr, qlen, running, terminated, termpc, nextUid, hub>>

\* handleMessage "add_agent", the call of AddAgent: with an agent returned
\* the handler goes on to StartAgentLoop
handleAddAgent(name) ==
    /\ AddAgent(name)
    /\ threads' = IF ret'.val # 0
                  THEN Append(threads, NewThread("handler", ret'.val, "start", <<>>))
                  ELSE threads
    /\ UNCHANGED <<qarr, qlen, running, terminated, termpc, nextUid, hub>>

\* add_agent requests while at most MaxLoops loops are started
HandleAddAgent ==
    \E name \in Names :
        /\ AddAgentFull \/ Cardinality(Loops \cup Starting) < MaxLoops
        /\ handleAddAgent(name)

\* number of loops started while the registry is filled to its capacity
CapLoops == maxAgents + MaxLoops

\* add_agent requests up to and beyond the capacity of the registry, one
\* handler at a time
CapAddAgent ==
    \E name \in Names :
        /\ Starting = {}
        /\ AddAgentFull \/ Cardinality(Loops) < CapLoops
        /\ handleAddAgent(name)

\* the handler of an add_agent request starts the loop
CapStartLoop == \E t \in DOMAIN threads : StartAgentLoop(t)

\* remove_agent for the smallest id, and for an id never given
CapRemoveAgent ==
    \E id \in {1, maxAgents + 1} :
        /\ RemoveAgent(id)
        /\ UNCHANGED <<qarr, qlen, threads, running, terminated, termpc, nextUid, hub>>

\* the registry filled and emptied by requests; the loops stay at their test
NextCap == CapAddAgent \/ CapStartLoop \/ CapRemoveAgent

SpecCap == Init /\ [][NextCap]_vars

\* command texts of direct execute requests
ExecCommands == {CmdRunA, CmdBare}

\* handleMessage "execute": go manager.ExecuteCommand(agentID, command)
HandleExecute ==
    \E id \in 1..ExecAgents, command \in ExecCommands :
        /\ Cardinality(Execs) < MaxExecs
        /\ threads' = Append(threads, NewThread("exec", id, "e0", command))
        /\ published' = <<>>
        /\ ret' = [op |-> "Execute", arg |-> id, val |-> 0]
        /\ UNCHANGED <<agents, objs, qarr, qlen, running, terminated, termpc, db,
                       nextUid, hub>>

\* GracefulTerminate("<END!>"): am.terminated = true
TerminateBegin ==
    /\ termpc = "idle"
    /\ terminated' = TRUE
    /\ termpc' = "flagged"
    /\ published' = <<>>
    /\ ret' = NoRet
    /\ UNCHANGED <<agents, objs, qarr, qlen, threads, running, db, nextUid, hub>>

\* GracefulTerminate: am.running = false, publish "terminated"
TerminateEnd ==
    /\ termpc = "flagged"
    /\ running' = FALSE
    /\ termpc' = "idle"
    /\ published' = <<[Type |-> "terminated", Payload |-> 0]>>
    /\ ret' = [op |-> "GracefulTerminate", arg |-> 0, val |-> 0]
    /\ UNCHANGED <<agents, objs, qarr, qlen, threads, terminated, db, nextUid, hub>>

\* stop that flips the flag instead of clearing it
HandleStopToggles ==
    /\ running' = ~running
    /\ published' = <<[Type |-> "stopped", Payload |-> 0]>>
    /\ ret' = [op |-> "Stop", arg |-> 0, val |-> 0]
    /\ UNCHANGED <<agents, objs, qarr, qlen, threads, terminated, termpc, db,
                   nextUid, hub>>

\* handleMessage "stop"
HandleStop ==
    /\ running' = FALSE
    /\ published' = <<[Type |-> "stopped", Payload |-> 0]>>
    /\ ret' = [op |-> "Stop", arg |-> 0, val |-> 0]
    /\ UNCHANGED <<agents, objs, qarr, qlen, threads, terminated, termpc, db,
                   nextUid, hub>>

\* command texts of the queue requests made while loops run
RunCommands == {CmdRunA}

\* handleMessage "add_queue" while loops run: at most RunItems items are created
RunEnqueue ==
    \E commands \in BatchMaps(RunCommands) :
        /\ AddToQueue(commands)
        /\ nextUid' - 1 <= RunItems
        /\ UNCHANGED <<agents, objs, running, terminated, termpc, hub>>

\* execution loops claiming from a queue that is being filled
NextClaim ==
    \/ HandleAddAgent
    \/ RunEnqueue
    \/ ThreadStep

SpecClaim == Init /\ [][NextClaim]_vars

\* handleMessage "remove_agent" for the ids the loops were started for
LoopRemoveAgent ==
    \E id \in 1..MaxLoops :
        /\ RemoveAgent(id)
        /\ UNCHANGED <<qarr, qlen, threads, running, terminated, termpc, nextUid, hub>>

\* execution loops while agents are removed and created again
NextRemove ==
    \/ HandleAddAgent
    \/ LoopRemoveAgent
    \/ RunEnqueue
    \/ ThreadStep

SpecRemove == Init /\ [][NextRemove]_vars

\* the add_agent requests come before the queue requests
AliasAddAgent ==
    /\ nextUid = 1
    /\ Clears = {}
    /\ HandleAddAgent

\* handleMessage "queue_rm" for the indexes RunEnqueue gives, while the
\* queue has items
AliasRemove ==
    \E index \in 1..RunItems :
        /\ qlen > 0
        /\ RemoveFromQueue(index)
        /\ UNCHANGED <<agents, objs, threads, running, terminated, termpc, nextUid,
                       hub>>

\* handleChat "clear" while the queue has items
AliasClear ==
    /\ qlen > 0
    /\ CallQueueClear

\* execution loops while requests enqueue, remove and clear
NextAlias ==
    \/ AliasAddAgent
    \/ RunEnqueue
    \/ AliasRemove
    \/ AliasClear
    \/ CallQueueClearPublish
    \/ ThreadStep

SpecAlias == Init /\ [][NextAlias]_vars

\* execution loops racing with termination and stop
NextTerm ==
    \/ HandleAddAgent
    \/ RunEnqueue
    \/ TerminateBegin
    \/ TerminateEnd
    \/ HandleStop
    \/ ThreadStep

SpecTerm == Init /\ [][NextTerm]_vars

\* AddAgent called on its own, for at most ExecAgents agents
ExecAddAgent ==
    /\ Cardinality(LiveIds) < ExecAgents
    /\ CallAddAgent

\* remove_agent for the ids ExecAddAgent can give, and one more
ExecRemoveAgent ==
    \E id \in 1..(ExecAgents + 1) :
        /\ RemoveAgent(id)
        /\ UNCHANGED <<qarr, qlen, threads, running, terminated, termpc, nextUid, hub>>

\* direct executes racing with agent creation, removal and termination
NextExec ==
    \/ ExecAddAgent
    \/ ExecRemoveAgent
    \/ HandleExecute
    \/ TerminateBegin
    \/ TerminateEnd
    \/ ExecSteps

SpecExec == Init /\ [][NextExec]_vars

\* the end-to-end scenario: one request with two valid commands that exit 0,
\* one agent with its loop, no termination, stop or removal
LiveCommands == {CmdRunA, CmdRunB, CmdRunEmpty}

LiveEnqueue ==
    /\ nextUid = 1
    /\ \E commands \in [{Itoa(1), Itoa(2)} -> LiveCommands] :
          /\ AddToQueue(commands)
          /\ UNCHANGED <<agents, objs, running, terminated, termpc, hub>>

LiveAddAgent ==
    /\ Loops \cup Starting = {}
    /\ HandleAddAgent

NextLive ==
    \/ LiveEnqueue
    \/ LiveAddAgent
    \/ ThreadStep

\* goroutines are scheduled fairly and every sleep ends
SpecLive == Init /\ [][NextLive]_vars /\ WF_vars(ThreadStep)

\* handleMessage "add_queue" with one command, when the queue is empty; at
\* most RunItems items are created
LatchEnqueue ==
    /\ qlen = 0
    /\ nextUid <= RunItems
    /\ \E commands \in [{Itoa(1)} -> RunCommands] :
          /\ AddToQueue(commands)
          /\ UNCHANGED <<agents, objs, running, terminated, termpc, hub>>

\* requests before, during and after termination and stop; a chat text
\* holding the sentinel calls GracefulTerminate like "terminate" does
NextLatch ==
    \/ ExecAddAgent
    \/ HandleExecute
    \/ ExecSteps
    \/ LatchEnqueue
    \/ TerminateBegin
    \/ TerminateEnd
    \/ HandleStop

SpecLatch == Init /\ [][NextLatch]_vars

----------------------------------------------------------------------------
(* List queries: handleMessage "queue_list" and "get_agents" *)

Lists == {t \in DOMAIN threads : threads[t].kind = "list"}

\* AgentManager.GetQueueList: return am.queue, the slice itself
GetQueueList == [NoList EXCEPT !.kind = "queue", !.live = TRUE, !.len = qlen,
                               !.got = Queue]

\* the injective sequences over the live ids: the orders a range over the
\* map can take
IdOrders ==
    {sq \in [1..Cardinality(LiveIds) -> LiveIds] :
        \A i, j \in DOMAIN sq : i # j => sq[i] # sq[j]}

\* AgentManager.GetAgents: a new slice holding the map's *Agent values
GetAgents(order) ==
    [NoList EXCEPT !.kind = "agents",
                   !.refs = [k \in DOMAIN order |-> agents[order[k]]],
                   !.got = [k \in DOMAIN order |-> AgentOf(order[k])]]

\* what the caller reads in the list it holds
ListContent(th) ==
    IF th.list.kind = "queue"
    THEN SubSeq(IF th.list.live THEN qarr ELSE th.list.arr, 1, th.list.len)
    ELSE [k \in DOMAIN th.list.refs |-> objs[th.list.refs[k]]]

\* handleMessage "queue_list": the caller keeps the list to serialise it
HandleQueueList ==
    /\ Cardinality(Lists) < MaxLists
    /\ threads' = Append(threads,
          [NewThread("list", 0, "has", <<>>) EXCEPT !.list = GetQueueList])
    /\ published' = <<>>
    /\ ret' = [op |-> "GetQueueList", arg |-> 0, val |-> 0]
    /\ UNCHANGED <<agents, objs, qarr, qlen, running, terminated, termpc, db,
                   nextUid, hub>>

\* handleMessage "get_agents"
HandleGetAgents ==
    /\ Cardinality(Lists) < MaxLists
    /\ \E order \in IdOrders :
          threads' = Append(threads,
              [NewThread("list", 0, "has", <<>>) EXCEPT !.list = GetAgents(order)])
    /\ published' = <<>>
    /\ ret' = [op |-> "GetAgents", arg |-> 0, val |-> 0]
    /\ UNCHANGED <<agents, objs, qarr, qlen, running, terminated, termpc, db,
                   nextUid, hub>>

\* handleMessage "queue_rm" for the indexes RunEnqueue gives
ListRemove ==
    \E index \in 1..RunItems :
        /\ RemoveFromQueue(index)
        /\ UNCHANGED <<agents, objs, threads, running, terminated, termpc, nextUid,
                       hub>>

\* list queries among queue requests, agent requests and direct executes
NextList ==
    \/ HandleQueueList
    \/ HandleGetAgents
    \/ RunEnqueue
    \/ CallGetNextQueueItem
    \/ ListRemove
    \/ ExecAddAgent
    \/ HandleExecute
    \/ ExecSteps

SpecList == Init /\ [][NextList]_vars

----------------------------------------------------------------------------
(* Restart: a new process constructs its manager over the same store *)

\* capacity of a slice built from cap by appending up to n items
RECURSIVE capFor(_, _)
capFor(n, cap) == IF cap >= n THEN cap ELSE capFor(n, grownCap(cap))

\* position of id among ids, in increasing order
idRank(ids, id) == Cardinality({k \in ids : k <= id})

\* NewAgentManager: fresh maps and flags, then loadStateFromDB; the
\* goroutines of the old process are gone
NewAgentManager ==
    LET la == loadAgents(db)
        lq == loadQueue(db)
    IN /\ agents' = [id \in DOMAIN la |-> idRank(DOMAIN la, id)]
       /\ objs' = [r \in ObjRefs |->
                     IF \E id \in DOMAIN la : idRank(DOMAIN la, id) = r
                     THEN la[CHOOSE id \in DOMAIN la : idRank(DOMAIN la, id) = r]
                     ELSE NoObj]
       /\ qarr' = [k \in 1..capFor(Len(lq), 0) |->
                     IF k <= Len(lq) THEN lq[k] ELSE ZeroItem]
       /\ qlen' = Len(lq)
       /\ threads' = <<>>
       /\ running' = TRUE
       /\ terminated' = FALSE
       /\ termpc' = "idle"
       /\ published' = <<>>
       /\ ret' = [op |-> "NewAgentManager", arg |-> 0, val |-> 0]
       /\ UNCHANGED <<db, nextUid, hub>>

\* agent names offered while the process is restarted over its store
StoreNames == {"w", LongName}

StoreAddAgent ==
    /\ Cardinality(LiveIds) < StoreAgents
    /\ \E name \in StoreNames :
          /\ AddAgent(name)
          /\ UNCHANGED <<qarr, qlen, threads, running, terminated, termpc, nextUid, hub>>

\* direct executes, while no live agent has settled MaxTasks commands
StoreExecute ==
    /\ \A id \in LiveIds : AgentOf(id).TasksDone + AgentOf(id).TasksFailed < MaxTasks
    /\ HandleExecute

\* agents created, run, removed and reloaded by a restarted process
NextStore ==
    \/ StoreAddAgent
    \/ ExecRemoveAgent
    \/ StoreExecute
    \/ ExecSteps
    \/ NewAgentManager

SpecStore == Init /\ [][NextStore]_vars

----------------------------------------------------------------------------
(* The hub: am.clients and the calls of broadcastMessage that range over it *)

\* everything but the hub
engine == <<agents, objs, qarr, qlen, threads, running, terminated, termpc, db,
            nextUid>>

Conns == 1..MaxConns

\* who may call broadcastMessage: 0 is a goroutine started with `go`
\* (MonitorResources, an execution loop, an execute request), c in Conns is
\* the handler goroutine of the websocket connection c (handleMessage), and
\* RestHandler is the goroutine of a request to /agents, /queue or /terminate
RestHandler == 0 - 1

Handlers == Conns \cup {RestHandler}

\* a call of broadcastMessage by the goroutine `by` that has taken the read
\* lock; at is the connection it is writing to or pruning, raced says that
\* another write to that connection was in flight during its write; atCall,
\* ok and failed are history fields: the connections registered when the
\* call began, those it wrote to, those whose write failed
NewPub(by) == [pc |-> "range", by |-> by, at |-> 0, raced |-> FALSE,
               atCall |-> clients, visited |-> {}, ok |-> {}, failed |-> {}]

\* the writes to the connection c that have begun and not ended
Writing(c) ==
    {p \in DOMAIN pubs : pubs[p].pc \in {"write", "direct"} /\ pubs[p].at = c}

\* a conn.WriteJSON of the handler goroutine of connection c that has begun
DirectWrite(c) ==
    [NewPub(c) EXCEPT !.pc = "direct", !.at = c, !.atCall = {c},
                      !.raced = Writing(c) # {}]

\* writes of handler goroutines that have begun and not ended
Direct == {p \in DOMAIN pubs : pubs[p].pc = "direct"}

\* calls that hold the read lock
InRange == {p \in DOMAIN pubs : pubs[p].pc \in {"range", "write", "prune"}}

\* the handler goroutine of connection c is inside a write or a broadcast
Busy(c) ==
    \E p \in DOMAIN pubs :
        pubs[p].by = c /\ pubs[p].pc \in {"range", "write", "prune", "direct"}

\* the runtime has ended the process: a fatal error, or a panic in a
\* goroutine that nothing recovers
Crashed == \E p \in DOMAIN pubs : pubs[p].pc \in {"fatal", "panic"}

\* handleWebSocket: manager.clients[conn] = true under the write lock
Register(c) ==
    /\ ~Crashed
    /\ c \notin clients \cup closed
    /\ InRange = {}
    /\ clients' = clients \cup {c}
    /\ handlers' = handlers \cup {c}
    /\ published' = <<>>
    /\ ret' = [op |-> "Register", arg |-> c, val |-> 0]
    /\ UNCHANGED <<engine, closed, pubs>>

\* the peer of a registered connection goes away: writes to it fail from now
PeerClose(c) ==
    /\ ~Crashed
    /\ c \in clients \ closed
    /\ closed' = closed \cup {c}
    /\ published' = <<>>
    /\ ret' = NoRet
    /\ UNCHANGED <<engine, clients, pubs, handlers>>

\* handleWebSocket: ReadJSON fails, delete(manager.clients, conn) under the
\* write lock, and the handler returns; a broadcast may have deleted the
\* connection already.  The handler goroutine of c is in ReadJSON only when
\* it is in no write and no broadcast of its own
Unregister(c) ==
    /\ ~Crashed
    /\ c \in handlers \cap closed
    /\ ~Busy(c)
    /\ InRange = {}
    /\ clients' = clients \ {c}
    /\ handlers' = handlers \ {c}
    /\ published' = <<>>
    /\ ret' = [op |-> "Unregister", arg |-> c, val |-> 0]
    /\ UNCHANGED <<engine, closed, pubs>>

\* handleMessage: a message whose payload has another shape than its type
\* asks for: the unchecked type assertion panics, net/http recovers the
\* panic, the deferred conn.Close() runs and the delete from am.clients is
\* skipped: the connection is closed and still registered, its handler gone
HandleBadMessage(c) ==
    /\ ~Crashed
    /\ c \in handlers
    /\ ~Busy(c)
    /\ closed' = closed \cup {c}
    /\ handlers' = handlers \ {c}
    /\ published' = <<>>
    /\ ret' = NoRet
    /\ UNCHANGED <<engine, clients, pubs>>

\* broadcastMessage: am.clientLock.RLock(), here by MonitorResources
PubStart ==
    /\ ~Crashed
    /\ Len(pubs) < MaxPubs
    /\ pubs' = Append(pubs, NewPub(0))
    /\ published' = <<[Type |-> "resource_update", Payload |-> 0]>>
    /\ ret' = NoRet
    /\ UNCHANGED <<engine, clients, closed, handlers>>

\* broadcastMessage: am.clientLock.RLock(), called by a request handler:
\* AddAgent, RemoveAgent, AddToQueue, RemoveFromQueue, handleChat, the stop
\* request and GracefulTerminate run in the goroutine of the request.  The
\* handler of a websocket connection is running and in no other call; its
\* own connection may be closed or deleted from am.clients by now
HandlerPubStart(h) ==
    /\ ~Crashed
    /\ Len(pubs) < MaxPubs
    /\ h \in Conns => h \in handlers /\ ~Busy(h)
    /\ pubs' = Append(pubs, NewPub(h))
    /\ published' = <<>>
    /\ ret' = NoRet
    /\ UNCHANGED <<engine, clients, closed, handlers>>

\* handleWebSocket, the "connected" message, and handleMessage, the replies
\* to queue_list, get_agents, get_resources, get_logs and
\* get_resource_history: the goroutine of connection c begins a
\* conn.WriteJSON, holding no lock; the connection may be closed or deleted
\* from am.clients by now
DirectStart(c) ==
    /\ ~Crashed
    /\ c \in handlers
    /\ ~Busy(c)
    /\ Len(pubs) < MaxPubs
    /\ pubs' = Append([q \in DOMAIN pubs |->
                          IF q \in Writing(c)
                          THEN [pubs[q] EXCEPT !.raced = TRUE] ELSE pubs[q]],
                      DirectWrite(c))
    /\ published' = <<>>
    /\ ret' = NoRet
    /\ UNCHANGED <<engine, clients, closed, handlers>>

\* another goroutine was writing to the connection during the write of p:
\* the library's check of isWriting may find it
WriteOverlaps(p, c) == pubs[p].at = c /\ pubs[p].raced

\* a panic in the goroutine `by`: net/http recovers the panic of a handler,
\* the deferred RUnlock has run, and the deferred conn.Close() of a
\* websocket handler closes its connection, which stays in am.clients; in a
\* goroutine started with `go` the panic ends the process
afterPanic(p) ==
    IF pubs[p].by = 0 THEN [pubs EXCEPT ![p].pc = "panic"]
    ELSE [pubs EXCEPT ![p].pc = "recovered"]

closedByPanic(p) ==
    IF pubs[p].by \in Conns THEN closed \cup {pubs[p].by} ELSE closed

\* the handler goroutine that panicked is gone
handlersByPanic(p) == handlers \ {pubs[p].by}

\* the conn.WriteJSON of a handler ends: the write is done or has failed
\* (the error is dropped), or, with a call of broadcastMessage writing to
\* the connection at the same time, the library panics
DirectEnd(p) ==
    /\ ~Crashed
    /\ pubs[p].pc = "direct"
    /\ \E c \in pubs[p].atCall :
          \/ /\ c \notin closed
             /\ pubs' = [pubs EXCEPT ![p].pc = "written", ![p].visited = {c},
                                     ![p].ok = {c}, ![p].raced = FALSE]
             /\ UNCHANGED <<closed, handlers>>
          \/ /\ c \in closed
             /\ pubs' = [pubs EXCEPT ![p].pc = "written", ![p].visited = {c},
                                     ![p].failed = {c}, ![p].raced = FALSE]
             /\ UNCHANGED <<closed, handlers>>
          \/ /\ WriteOverlaps(p, c)
             /\ pubs' = afterPanic(p)
             /\ closed' = closedByPanic(p)
             /\ handlers' = handlersByPanic(p)
    /\ published' = <<>>
    /\ ret' = NoRet
    /\ UNCHANGED <<engine, clients>>

\* broadcastMessage: `for client := range am.clients` yields a connection
\* and client.WriteJSON(msg) begins
PubWriteBegin(p) ==
    /\ ~Crashed
    /\ pubs[p].pc = "range"
    /\ \E c \in clients \ pubs[p].visited :
          pubs' = [q \in DOMAIN pubs |->
                      IF q = p
                      THEN [pubs[p] EXCEPT !.pc = "write", !.at = c,
                                           !.raced = Writing(c) # {}]
                      ELSE IF q \in Writing(c)
                      THEN [pubs[q] EXCEPT !.raced = TRUE]
                      ELSE pubs[q]]
    /\ published' = <<>>
    /\ ret' = NoRet
    /\ UNCHANGED <<engine, clients, closed, handlers>>

\* broadcastMessage: client.WriteJSON(msg) returns: nil, and the range goes
\* on, or an error, and the call goes to prune the connection; after an
\* overlapping write to the connection the library may panic instead
PubWriteEnd(p) ==
    /\ ~Crashed
    /\ pubs[p].pc = "write"
    /\ LET c == pubs[p].at IN
          \/ /\ c \notin closed
             /\ pubs' = [pubs EXCEPT ![p].pc = "range", ![p].at = 0,
                                     ![p].raced = FALSE,
                                     ![p].visited = @ \cup {c},
                                     ![p].ok = @ \cup {c}]
             /\ UNCHANGED <<closed, handlers>>
          \/ /\ c \in closed
             /\ pubs' = [pubs EXCEPT ![p].pc = "prune", ![p].raced = FALSE]
             /\ UNCHANGED <<closed, handlers>>
          \/ /\ WriteOverlaps(p, c)
             /\ pubs' = afterPanic(p)
             /\ closed' = closedByPanic(p)
             /\ handlers' = handlersByPanic(p)
    /\ published' = <<>>
    /\ ret' = NoRet
    /\ UNCHANGED <<engine, clients>>

\* broadcastMessage: client.Close() and delete(am.clients, client) under the
\* read lock, then the range goes on; the connection may be deleted already.
\* With another call holding the read lock the delete is a data race on the
\* map, which the runtime may end with a fatal error
PubPrune(p) ==
    /\ ~Crashed
    /\ pubs[p].pc = "prune"
    /\ LET c == pubs[p].at IN
          \/ /\ pubs' = [pubs EXCEPT ![p].pc = "range", ![p].at = 0,
                                     ![p].visited = @ \cup {c},
                                     ![p].failed = @ \cup {c}]
             /\ clients' = clients \ {c}
             /\ closed' = closed \cup {c}
          \/ /\ InRange # {p}
             /\ pubs' = [pubs EXCEPT ![p].pc = "fatal"]
             /\ UNCHANGED <<clients, closed>>
    /\ published' = <<>>
    /\ ret' = NoRet
    /\ UNCHANGED <<engine, handlers>>

\* broadcastMessage: the range is over, RUnlock, return
PubReturn(p) ==
    /\ ~Crashed
    /\ pubs[p].pc = "range"
    /\ clients \ pubs[p].visited = {}
    /\ pubs' = [pubs EXCEPT ![p].pc = "returned"]
    /\ published' = <<>>
    /\ ret' = NoRet
    /\ UNCHANGED <<engine, clients, closed, handlers>>

\* connections coming and going while broadcastMessage is called
NextHub ==
    \/ \E c \in Conns : Register(c)
    \/ \E c \in Conns : PeerClose(c)
    \/ \E c \in Conns : Unregister(c)
    \/ \E c \in Conns : HandleBadMessage(c)
    \/ PubStart
    \/ \E h \in Handlers : HandlerPubStart(h)
    \/ \E c \in Conns : DirectStart(c)
    \/ \E p \in DOMAIN pubs : DirectEnd(p)
    \/ \E p \in DOMAIN pubs : PubWriteBegin(p)
    \/ \E p \in DOMAIN pubs : PubWriteEnd(p)
    \/ \E p \in DOMAIN pubs : PubPrune(p)
    \/ \E p \in DOMAIN pubs : PubReturn(p)

SpecHub == Init /\ [][NextHub]_vars

----------------------------------------------------------------------------
(* Properties *)

Pending(q) == {i \in 1..Len(q) : q[i].Status = "pending"}

\* the item a goroutine's pointer reads in the array arr
Held(th, arr) == IF th.item.kind = "live" THEN arr[th.item.idx] ELSE th.item.slot

Holders == {t \in DOMAIN threads : threads[t].item.kind # "nil"}

TerminationProcessed == terminated /\ ~running /\ termpc = "idle"

\* some item of the queue goes from pending to running in this step
FlipsToRunning ==
    \E i \in 1..qlen, j \in 1..qlen' :
        /\ qarr[i].uid = qarr'[j].uid
        /\ qarr[i].Status = "pending"
        /\ qarr'[j].Status = "running"

\* C1: the number of live agents never exceeds maxAgents, and AddAgent gives
\* a new agent an id that no live agent has at that moment
C1_CapacityAndFreshId ==
    /\ [](Cardinality(LiveIds) <= maxAgents)
    /\ [][(ret'.op = "AddAgent" /\ ret'.val # 0) =>
            /\ ret'.val \notin LiveIds
            /\ LiveIds' = LiveIds \cup {ret'.val}
            /\ \A i \in LiveIds : agents'[i] = agents[i]]_vars

\* the registry is full and the last AddAgent created the agent that filled it
C1_Witness ==
    /\ Cardinality(LiveIds) = maxAgents
    /\ ret.op = "AddAgent"
    /\ ret.val \in LiveIds

\* C2: a claim flips exactly one pending item to running, an item that left
\* pending never becomes pending again, and no two loops hold the same item
C2_ExclusiveClaim ==
    /\ [](\A t1, t2 \in Holders :
            t1 # t2 => /\ Held(threads[t1], qarr).uid # Held(threads[t2], qarr).uid
                       /\ threads[t1].claimed # threads[t2].claimed)
    /\ [][/\ \A i \in 1..qlen, j \in 1..qlen' :
              (qarr[i].uid = qarr'[j].uid /\ qarr[i].Status # "pending")
                  => qarr'[j].Status # "pending"
           /\ \A t \in DOMAIN threads :
              (threads[t].pc = "claim" /\ threads'[t].pc = "stamp") =>
                 LET p == threads'[t].item
                 IN /\ p.kind = "live"
                    /\ qarr[p.idx].Status = "pending"
                    /\ qarr'[p.idx].Status = "running"
                    /\ threads'[t].claimed = qarr[p.idx].uid
                    /\ \A k \in 1..Len(qarr) : k # p.idx => qarr'[k] = qarr[k]]_vars

\* two loops hold two different running items at the same time
C2_Witness ==
    \E t1, t2 \in Holders :
        /\ t1 # t2
        /\ Held(threads[t1], qarr).Status = "running"
        /\ Held(threads[t2], qarr).Status = "running"

\* C3: GetNextQueueItem returns no item only when no item is pending
C3_NoLostClaim ==
    (ret.op = "GetNextQueueItem" /\ ret.val = NilPtr) => Pending(Queue) = {}

\* C4: when items are pending, GetNextQueueItem returns the pending item of
\* highest priority, the earliest of them when several have that priority
C4_HighestEarliest ==
    [][(ret'.op = "GetNextQueueItem" /\ Pending(Queue) # {}) =>
          /\ ret'.val.kind = "live"
          /\ ret'.val.idx \in Pending(Queue)
          /\ \A k \in Pending(Queue) :
                \/ Queue[k].Priority < Queue[ret'.val.idx].Priority
                \/ Queue[k].Priority = Queue[ret'.val.idx].Priority /\ ret'.val.idx <= k]_vars

\* C5: an Execute whose text lacks the prefix "RUN " spawns nothing, changes
\* no counter and returns exit code 1 with an error
C5_FormatRejection ==
    [][\A t \in DOMAIN threads :
          (/\ threads[t].kind = "exec"
           /\ ~HasPrefix(threads[t].command, RUNPrefix)
           /\ threads'[t] # threads[t]) =>
              /\ threads'[t].spawned = 0
              /\ \A id \in LiveIds :
                    /\ objs'[agents[id]].TasksDone = AgentOf(id).TasksDone
                    /\ objs'[agents[id]].TasksFailed = AgentOf(id).TasksFailed
              /\ (threads'[t].pc = "done" /\ threads'[t].result.Error # TermError) =>
                    /\ threads'[t].result.ExitCode = 1
                    /\ threads'[t].result.Error # ""]_vars

\* C6: once termination has been processed, a call of ExecuteCommand returns
\* the fixed termination error at once: nothing is spawned, no agent, stored
\* row or message changes
C6_TerminatedExecute ==
    [][\A t \in DOMAIN threads :
          (threads[t].pc = "e0" /\ threads'[t].pc # "e0" /\ TerminationProcessed) =>
              /\ threads'[t].result =
                    [ZeroResult EXCEPT !.AgentID = threads[t].agentID,
                                       !.Command = threads[t].command,
                                       !.Error = TermError]
              /\ threads'[t].pc = AfterExecute(threads[t])
              /\ threads'[t].spawned = 0
              /\ agents' = agents
              /\ objs' = objs
              /\ db' = db
              /\ published' = <<>>]_vars

\* a direct execute for a live agent returned the termination error
C6_Witness ==
    \E t \in DOMAIN threads :
        /\ threads[t].kind = "exec"
        /\ threads[t].pc = "done"
        /\ threads[t].result.Error = TermError
        /\ threads[t].spawned = 0
        /\ threads[t].agentID \in LiveIds
        /\ TerminationProcessed

\* C7: once termination has been processed, no step flips a queue item from
\* pending to running
C7_NoClaimAfterTermination ==
    [][TerminationProcessed => ~FlipsToRunning]_vars

\* both items of the scenario are completed with the output of their own
\* command, and the agent has settled two successes and no failure
BothCompleted ==
    /\ qlen = 2
    /\ \A i \in 1..2 :
          /\ Queue[i].Status = "completed"
          /\ Queue[i].Output = Sh(TrimPrefix(Queue[i].Command, RUNPrefix)).out
    /\ \A id \in LiveIds : AgentOf(id).TasksDone = 2 /\ AgentOf(id).TasksFailed = 0

\* a command of a loop has ended with a non-zero exit code (here: sh could
\* not be started) and is about to be settled
CommandFailed ==
    \E t \in Loops : threads[t].pc = "e3" /\ threads[t].result.ExitCode # 0

\* C8: with two valid commands enqueued and one agent's loop started, both
\* items are eventually completed with their own output, tasks_done ends at
\* 2 and tasks_failed at 0, each command exiting 0: in a behaviour where no
\* command ends with another exit code
C8_EndToEnd ==
    \/ <>CommandFailed
    \/ [](((nextUid = 3) /\ (Loops # {})) => <>[](LiveIds # {} /\ BothCompleted))

C8_Witness ==
    /\ LiveIds # {}
    /\ BothCompleted
    /\ Queue[1].Output # Queue[2].Output

\* C9: RemoveAgent returns true exactly for a live id, the id is not live
\* afterwards, a call repeated right after a successful one returns false,
\* and a call for an unknown id changes nothing and publishes nothing
C9_RemoveAgentTwice ==
    [][(ret'.op = "RemoveAgent") =>
          /\ ret'.val = (ret'.arg \in LiveIds)
          /\ ret'.arg \notin LiveIds'
          /\ \A i \in LiveIds \ {ret'.arg} : i \in LiveIds' /\ agents'[i] = agents[i]
          /\ (ret.op = "RemoveAgent" /\ ret.val = TRUE /\ ret.arg = ret'.arg)
                => ret'.val = FALSE
          /\ (ret'.arg \notin LiveIds) =>
                /\ agents' = agents
                /\ objs' = objs
                /\ db' = db
                /\ published' = <<>>]_vars

\* a removal of an id that is not live returned false while agents are live
C9_Witness ==
    /\ ret.op = "RemoveAgent"
    /\ ret.val = FALSE
    /\ ret.arg \in 1..maxAgents
    /\ LiveIds # {}
    /\ published = <<>>

\* positions of q that carry index
Carrying(q, index) == {i \in 1..Len(q) : q[i].Index = index}

\* q without the item at position i
Without(q, i) == [k \in 1..(Len(q) - 1) |-> IF k < i THEN q[k] ELSE q[k + 1]]

\* C10: RemoveFromQueue with an index no item carries returns false and
\* leaves the queue as it is; otherwise it returns true and deletes the first
\* item carrying the index, all other items keeping their content and order
C10_RemoveFirstMatch ==
    [][(ret'.op = "RemoveFromQueue") =>
          LET hits == Carrying(Queue, ret'.arg)
          IN IF hits = {}
             THEN /\ ret'.val = FALSE
                  /\ Queue' = Queue
                  /\ qarr' = qarr
             ELSE /\ ret'.val = TRUE
                  /\ Queue' = Without(Queue, CHOOSE i \in hits : \A k \in hits : i <= k)]_vars

\* a removal succeeded and another item carrying the same index is still queued
C10_Witness ==
    /\ ret.op = "RemoveFromQueue"
    /\ ret.val = TRUE
    /\ qlen >= 2
    /\ Carrying(Queue, ret.arg) # {}

\* C11: with a store, saving a live agent and loading the store gives an
\* agent with the same id, name, status, tasks_done and tasks_failed
C11_RoundTrip ==
    db.on => \A id \in LiveIds :
        LET a == AgentOf(id)
            l == loadAgents(saveAgentToDB(db, a))
        IN /\ id \in DOMAIN l
           /\ l[id].ID = a.ID
           /\ l[id].Name = a.Name
           /\ l[id].Status = a.Status
           /\ l[id].TasksDone = a.TasksDone
           /\ l[id].TasksFailed = a.TasksFailed

\* C12: an add_agent request made when the registry holds maxAgents agents
\* or more returns no agent and leaves the registry, the agent objects and
\* the store as they are, publishes nothing and starts no loop
C12_CapacityRejected ==
    [][(ret'.op = "AddAgent" /\ AddAgentFull) =>
          /\ ret'.val = 0
          /\ agents' = agents
          /\ objs' = objs
          /\ db' = db
          /\ published' = <<>>
          /\ threads' = threads]_vars

\* an add_agent request was refused by a registry of maxAgents agents, each
\* with its loop
C12_Witness ==
    /\ ret.op = "AddAgent"
    /\ ret.val = 0
    /\ Cardinality(LiveIds) = maxAgents
    /\ \A id \in LiveIds : \E t \in Loops : threads[t].agentID = id

\* the smallest id from lo on that no live agent has
SmallestUnused(lo) ==
    CHOOSE n \in lo..(maxAgents + 1) :
        n \notin LiveIds /\ \A m \in lo..(maxAgents + 1) : m \notin LiveIds => n <= m

\* the agent AddAgent has just created has id and the initial field values
CreatedWith(id) ==
    /\ LiveIds' = LiveIds \cup {id}
    /\ id \notin LiveIds
    /\ objs'[agents'[id]] = [ID |-> id, Name |-> ret'.arg, Status |-> "idle",
                             CurrentTask |-> <<>>, TasksDone |-> 0, TasksFailed |-> 0]

\* C13 as stated: a successful AddAgent gives the smallest non-negative
\* integer no live agent has, with status idle, no current task, zero counters
C13_SmallestNonNegative ==
    [][(ret'.op = "AddAgent" /\ ~AddAgentFull) => CreatedWith(SmallestUnused(0))]_vars

\* C13 as amended: a successful AddAgent gives the smallest integer from 1 on
\* that no live agent has (so a freed id is given again), with status idle,
\* no current task and zero counters; the id 0 is never given
C13_SmallestPositive ==
    [][(ret'.op = "AddAgent" /\ ~AddAgentFull) =>
          /\ ret'.val = SmallestUnused(1)
          /\ CreatedWith(SmallestUnused(1))]_vars

\* AddAgent gave the freed id 1 again while agents with larger ids are live
C13_Witness ==
    /\ ret.op = "AddAgent"
    /\ ret.val = 1
    /\ {2, 3} \subseteq LiveIds
    /\ AgentOf(1).Status = "idle"

\* C14: an enqueue gives each new item an index greater than the index of
\* every item in the queue before it, and no two items in the queue carry
\* the same index
C14_IndexNeverReused ==
    /\ [](\A i, j \in 1..qlen : i # j => Queue[i].Index # Queue[j].Index)
    /\ [][\A j \in 1..qlen' :
            qarr'[j].uid >= nextUid =>
                \A i \in 1..qlen : qarr'[j].Index > qarr[i].Index]_vars

\* C15: AddToQueue appends one item for each entry of its argument, each
\* pending with priority 0, agent id 0, the batch id of the call and an index
\* above the length the queue had, and leaves the items already queued alone
C15_EnqueueAppends ==
    [][(ret'.op = "AddToQueue") =>
          /\ qlen' = qlen + ret'.arg
          /\ \A i \in 1..qlen : qarr'[i] = qarr[i]
          /\ \A j \in (qlen + 1)..qlen' :
                /\ qarr'[j].Status = "pending"
                /\ qarr'[j].Priority = 0
                /\ qarr'[j].AgentID = 0
                /\ qarr'[j].BatchID = qarr'[qlen'].BatchID
                /\ qarr'[j].Index > qlen]_vars

\* C16: the loop of an agent that has been removed flips no item from
\* pending to running
C16_RemovedLoopStops ==
    [][\A t \in DOMAIN threads :
          (/\ threads[t].kind = "loop"
           /\ threads[t].agentID \notin LiveIds
           /\ threads[t].pc = "claim") => threads'[t].pc # "stamp"]_vars

\* C17: the item a loop stamps with its agent id, the item whose command it
\* passes to ExecuteCommand and the item it marks completed or failed are the
\* item its GetNextQueueItem flipped to running, and its CompleteQueueItem
\* changes no other item
C17_ClaimedItemKept ==
    [][\A t \in DOMAIN threads :
          /\ (threads[t].pc = "stamp" /\ threads'[t].pc = "call") =>
                Held(threads[t], qarr).uid = threads[t].claimed
          /\ (threads[t].pc = "call" /\ threads'[t].pc = "e0") =>
                Held(threads[t], qarr).uid = threads[t].claimed
          /\ (threads[t].pc = "complete" /\ threads'[t].pc = "check") =>
                \A i \in 1..qlen :
                    qarr'[i] # qarr[i] => qarr[i].uid = threads[t].claimed]_vars

\* C18: a call of broadcastMessage goes on after a failed write (pruning
\* the connection does not end it), and when it returns it has written to every
\* connection that was registered when it began, every connection whose
\* write failed is no longer registered and every connection whose write
\* succeeded is still registered
C18_PublishPrunes ==
    [][\A p \in DOMAIN pubs :
          /\ p \in InRange => pubs'[p].pc # "fatal"
          /\ (pubs[p].pc = "range" /\ pubs'[p].pc = "returned") =>
                /\ pubs[p].ok \cup pubs[p].failed = pubs[p].atCall
                /\ pubs[p].failed \cap clients' = {}
                /\ pubs[p].ok \subseteq clients']_vars

\* C19: the list a caller got from GetQueueList or GetAgents keeps the
\* content it had when it was returned, whatever is done to the queue and
\* to the agents afterwards
C19_ListsAreSnapshots ==
    \A t \in DOMAIN threads :
        threads[t].kind = "list" => ListContent(threads[t]) = threads[t].list.got

\* C20: once terminated is true it stays true, and once terminated is true
\* and running is false, running stays false: no step sets either flag back
C20_TerminationLatch ==
    [][/\ terminated => terminated'
       /\ (terminated /\ ~running) => ~running']_vars

\* after termination was processed an execute was refused and an enqueue
\* was accepted, and the flags are as termination left them
C20_Witness ==
    /\ TerminationProcessed
    /\ ret.op = "AddToQueue"
    /\ \E t \in DOMAIN threads :
          threads[t].pc = "done" /\ threads[t].result.Error = TermError

----------------------------------------------------------------------------
(* The engine over a store whose operations fail *)

\* the memory of the engine, its store and the value the last call returned
World == [agents |-> agents, objs |-> objs, arr |-> qarr, len |-> qlen,
          th |-> threads, d |-> db, uid |-> nextUid, ret |-> ret]

\* a store whose every operation returns an error: the error is logged,
\* nothing is written, saveQueueItemToDB returns 0
StoreDown(d) == [d EXCEPT !.on = FALSE]

\* the store stops answering: from here on its operations return an error
StoreFails ==
    /\ db.on
    /\ db' = StoreDown(db)
    /\ published' = <<>>
    /\ ret' = NoRet
    /\ UNCHANGED <<agents, objs, qarr, qlen, threads, running, terminated, termpc,
                   nextUid, hub>>

\* AgentManager.AddAgent, as a function of the world it is called in
AddAgentIn(s, name) ==
    IF Cardinality(DOMAIN s.agents) >= maxAgents
    THEN [s EXCEPT !.ret = [op |-> "AddAgent", arg |-> name, val |-> 0]]
    ELSE LET id == firstFreeId(DOMAIN s.agents, 1)
             r == FreeRef(s.objs, s.agents, s.th)
             agent == [ID |-> id, Name |-> name, Status |-> "idle",
                       CurrentTask |-> <<>>, TasksDone |-> 0, TasksFailed |-> 0]
         IN [s EXCEPT
               !.agents = [i \in DOMAIN s.agents \cup {id} |->
                             IF i = id THEN r ELSE s.agents[i]],
               !.objs = [s.objs EXCEPT ![r] = agent],
               !.d = saveAgentToDB(s.d, agent),
               !.ret = [op |-> "AddAgent", arg |-> name, val |-> id]]

\* AgentManager.RemoveAgent, as a function of the world
RemoveAgentIn(s, id) ==
    IF id \in DOMAIN s.agents
    THEN LET ag == [i \in DOMAIN s.agents \ {id} |-> s.agents[i]]
         IN [s EXCEPT !.agents = ag,
                      !.objs = Collect(s.objs, ag, s.th),
                      !.d = deleteAgentFromDB(s.d, id),
                      !.ret = [op |-> "RemoveAgent", arg |-> id, val |-> TRUE]]
    ELSE [s EXCEPT !.ret = [op |-> "RemoveAgent", arg |-> id, val |-> FALSE]]

\* AgentManager.AddToQueue, as a function of the world
AddToQueueIn(s, commands) ==
    [addToQueueFrom(s, commands, s.len, s.uid, 1) EXCEPT
        !.ret = [op |-> "AddToQueue", arg |-> Cardinality(DOMAIN commands), val |-> 0]]

\* AgentManager.RemoveFromQueue, as a function of the world
RemoveFromQueueIn(s, index) ==
    LET i == findIndex(SubSeq(s.arr, 1, s.len), index, 1)
    IN IF i > 0
       THEN [s EXCEPT !.d = deleteQueueItemFromDB(s.d, s.arr[i].ID),
                      !.arr = removeAt(s.arr, s.len, i),
                      !.len = s.len - 1,
                      !.ret = [op |-> "RemoveFromQueue", arg |-> index, val |-> TRUE]]
       ELSE [s EXCEPT !.ret = [op |-> "RemoveFromQueue", arg |-> index, val |-> FALSE]]

\* AgentManager.GetNextQueueItem, as a function of the world
GetNextQueueItemIn(s) ==
    LET b == bestIdxOf(SubSeq(s.arr, 1, s.len))
        flipped == [s.arr EXCEPT ![b].Status = "running"]
    IN IF b > 0
       THEN [s EXCEPT !.arr = flipped,
                      !.d = updateQueueItemInDB(s.d, flipped[b]),
                      !.ret = [op |-> "GetNextQueueItem", arg |-> 0, val |-> LivePtr(b)]]
       ELSE [s EXCEPT !.ret = [op |-> "GetNextQueueItem", arg |-> 0, val |-> NilPtr]]

\* AgentManager.CompleteQueueItem, as a function of the world
CompleteQueueItemIn(s, index, output, success) ==
    LET i == findIndex(SubSeq(s.arr, 1, s.len), index, 1)
        done == [s.arr EXCEPT ![i].Status = IF success THEN "completed" ELSE "failed",
                              ![i].Output = output]
    IN IF i > 0
       THEN [s EXCEPT !.arr = done,
                      !.d = updateQueueItemInDB(s.d, done[i]),
                      !.ret = [op |-> "CompleteQueueItem", arg |-> index, val |-> 0]]
       ELSE [s EXCEPT !.ret = [op |-> "CompleteQueueItem", arg |-> index, val |-> 0]]

\* ExecuteCommand, the step that marks the agent running, as a function
ExecBeginIn(s, t) ==
    LET id == s.th[t].agentID
        exists == id \in DOMAIN s.agents
        r == IF exists THEN s.agents[id] ELSE 0
        marked == IF exists
                  THEN [s.objs EXCEPT ![r].Status = "running",
                                      ![r].CurrentTask = s.th[t].command]
                  ELSE s.objs
    IN [s EXCEPT !.objs = marked,
                 !.d = IF exists THEN saveAgentToDB(s.d, marked[r]) ELSE s.d,
                 !.th = [s.th EXCEPT ![t].agent = r, ![t].exists = exists,
                                     ![t].pc = "e2"],
                 !.ret = NoRet]

\* ExecuteCommand, the step that settles the agent, as a function
ExecFinishIn(s, t) ==
    LET th == s.th[t]
        r == th.agent
        settled == [s.objs[r] EXCEPT
                      !.Status = "idle",
                      !.CurrentTask = <<>>,
                      !.TasksDone = IF th.result.ExitCode = 0 THEN @ + 1 ELSE @,
                      !.TasksFailed = IF th.result.ExitCode = 0 THEN @ ELSE @ + 1]
    IN [s EXCEPT !.th = [s.th EXCEPT ![t].pc = "e4"],
                 !.objs = IF th.exists THEN [s.objs EXCEPT ![r] = settled] ELSE s.objs,
                 !.d = IF th.exists THEN saveAgentToDB(s.d, settled) ELSE s.d,
                 !.ret = NoRet]

\* CompleteQueueItem called on its own
CallCompleteQueueItem ==
    \E index \in 1..RunItems, success \in BOOLEAN :
        /\ CompleteQueueItem(index, <<"a">>, success)
        /\ ret' = [op |-> "CompleteQueueItem", arg |-> index, val |-> 0]
        /\ published' = <<>>
        /\ UNCHANGED <<agents, objs, qlen, threads, running, terminated, termpc,
                       nextUid, hub>>

\* no ExecuteCommand is in flight
Quiet == \A t \in DOMAIN threads : threads[t].pc = "done"

\* the calls of a sequence of operations: one returns before the next is made
SeqAddAgent == Quiet /\ ExecAddAgent

SeqRemoveAgent == Quiet /\ ExecRemoveAgent

SeqAddToQueue == Quiet /\ LatchEnqueue

SeqRemoveFromQueue == Quiet /\ ListRemove

SeqGetNextQueueItem == Quiet /\ CallGetNextQueueItem

SeqCompleteQueueItem == Quiet /\ CallCompleteQueueItem

SeqExecute == Quiet /\ HandleExecute

\* the API called in any order, one call at a time, over a store that works,
\* is absent, or fails from some call on
NextSwallow ==
    \/ SeqAddAgent
    \/ SeqRemoveAgent
    \/ SeqAddToQueue
    \/ SeqRemoveFromQueue
    \/ SeqGetNextQueueItem
    \/ SeqCompleteQueueItem
    \/ SeqExecute
    \/ ExecSteps
    \/ StoreFails

SpecSwallow == Init /\ [][NextSwallow]_vars

----------------------------------------------------------------------------
(* Execution loops running commands that fail *)

\* RUN x: sh finds no program x
CmdRunX == RUNPrefix \o <<"x">>

FailCommands == {CmdRunA, CmdRunX}

\* one add_queue request of commands that succeed and commands that fail
FailEnqueue ==
    /\ nextUid = 1
    /\ \E commands \in BatchMaps(FailCommands) :
          /\ AddToQueue(commands)
          /\ UNCHANGED <<agents, objs, running, terminated, termpc, hub>>

NextFail ==
    \/ HandleAddAgent
    \/ FailEnqueue
    \/ ThreadStep

SpecFail == Init /\ [][NextFail]_vars

\* loops settling commands that succeed and commands that fail, while
\* agents are removed and created again
NextSettle ==
    \/ HandleAddAgent
    \/ LoopRemoveAgent
    \/ FailEnqueue
    \/ ThreadStep

SpecSettle == Init /\ [][NextSettle]_vars

\* agents created, removed and run by direct executes, the process stopped
\* at any point and started again over its store
NextBoot ==
    \/ ExecAddAgent
    \/ ExecRemoveAgent
    \/ StoreExecute
    \/ ExecSteps
    \/ NewAgentManager

SpecBoot == Init /\ [][NextBoot]_vars

----------------------------------------------------------------------------
(* Locking: the calls as the sequences of lock operations they make on      *)
(* agentLock, queueLock and clientLock (sync.RWMutex)                       *)

\* number of calls in flight together
MaxCalls == 2

WLock(l) == [op |-> "Lock", lock |-> l]
WUnlock(l) == [op |-> "Unlock", lock |-> l]
RLock(l) == [op |-> "RLock", lock |-> l]
RUnlock(l) == [op |-> "RUnlock", lock |-> l]

\* broadcastMessage: RLock, defer RUnlock
BroadcastLocks == <<RLock("client"), RUnlock("client")>>

\* ExecuteCommand: mark under the agent lock, publish, run, settle under
\* the agent lock, publish twice
ExecuteLocks ==
    <<WLock("agent"), WUnlock("agent")>> \o BroadcastLocks
        \o <<WLock("agent"), WUnlock("agent")>> \o BroadcastLocks \o BroadcastLocks

\* GetNextQueueItem, CompleteQueueItem: the queue lock and nothing inside
QueueOnlyLocks == <<WLock("queue"), WUnlock("queue")>>

\* handleChat, mode /queue, "clear": the queue lock, released before the
\* broadcast
ClearLocks == QueueOnlyLocks \o BroadcastLocks

\* handleWebSocket that queries the agents before it releases clientLock
RegisterLocksNested ==
    <<WLock("client"), RLock("agent"), RUnlock("agent"), WUnlock("client"),
      RLock("queue"), RUnlock("queue")>>

\* handleWebSocket: register under clientLock, then GetAgents, GetQueueList
RegisterLocks ==
    <<WLock("client"), WUnlock("client"), RLock("agent"), RUnlock("agent"),
      RLock("queue"), RUnlock("queue")>>

\* the lock operations of each call, in program order.  AddAgent and
\* RemoveAgent publish inside the agent lock; AddToQueue,
\* AddToQueueWithPriority and RemoveFromQueue publish inside the queue lock;
\* GetNextQueueItem, GetNextBatch and CompleteQueueItem take the queue lock
\* alone.  An iteration of the loop of StartAgentLoop is GetNextQueueItem,
\* the queue lock alone, ExecuteCommand and CompleteQueueItem one after the
\* other, with no lock held in between.  handleChat is the "clear" request.
LockScripts ==
    [AddAgent |-> <<WLock("agent")>> \o BroadcastLocks \o <<WUnlock("agent")>>,
     AddToQueue |-> <<WLock("queue")>> \o BroadcastLocks \o <<WUnlock("queue")>>,
     GetNextQueueItem |-> QueueOnlyLocks,
     ExecuteCommand |-> ExecuteLocks,
     handleChat |-> ClearLocks,
     broadcastMessage |-> BroadcastLocks,
     handleWebSocket |-> RegisterLocks,
     MonitorResources |-> <<WLock("agent"), WUnlock("agent"),
                            RLock("agent"), RUnlock("agent"),
                            RLock("queue"), RUnlock("queue")>> \o BroadcastLocks]

Calls == {t \in DOMAIN threads : threads[t].kind = "call"}

ScriptOf(t) == LockScripts[threads[t].op]

Returned(t) == threads[t].pos = Len(ScriptOf(t))

\* the lock operation the call is at
NextOp(t) == ScriptOf(t)[threads[t].pos + 1]

\* how the call holds lock l: "Lock", "RLock" or "none"
HeldMode(t, l) ==
    LET sc == ScriptOf(t)
        done == 1..threads[t].pos
        acq == {i \in done : sc[i].lock = l /\ sc[i].op \in {"Lock", "RLock"}}
        rel == {i \in done : sc[i].lock = l /\ sc[i].op \in {"Unlock", "RUnlock"}}
    IN IF Cardinality(acq) > Cardinality(rel)
       THEN sc[CHOOSE i \in acq : \A k \in acq : k <= i].op
       ELSE "none"

\* a writer has announced itself on l: RWMutex.Lock holds the writers' mutex
\* and waits for the readers to leave, readers that come now wait for it
Announced(t, l) ==
    /\ ~Returned(t)
    /\ threads[t].announced
    /\ NextOp(t).lock = l

\* the call can take its next step
CanStep(t) ==
    /\ ~Returned(t)
    /\ LET o == NextOp(t)
           others == Calls \ {t}
       IN CASE o.op = "Lock" /\ ~threads[t].announced ->
                  \A u \in others : HeldMode(u, o.lock) # "Lock" /\ ~Announced(u, o.lock)
            [] o.op = "Lock" /\ threads[t].announced ->
                  \A u \in others : HeldMode(u, o.lock) = "none"
            [] o.op = "RLock" ->
                  \A u \in others : HeldMode(u, o.lock) # "Lock" /\ ~Announced(u, o.lock)
            [] OTHER -> TRUE

\* a handler or goroutine starts a call
StartCall ==
    \E op \in DOMAIN LockScripts :
        /\ Cardinality(Calls) < MaxCalls
        /\ threads' = Append(threads, [kind |-> "call", op |-> op, pos |-> 0,
                                       announced |-> FALSE])
        /\ published' = <<>>
        /\ ret' = NoRet
        /\ UNCHANGED <<agents, objs, qarr, qlen, running, terminated, termpc, db,
                       nextUid, hub>>

\* one lock operation of a call: Lock in two steps, the others in one
LockStep(t) ==
    /\ t \in Calls
    /\ CanStep(t)
    /\ threads' = [threads EXCEPT ![t] =
          IF NextOp(t).op = "Lock" /\ ~threads[t].announced
          THEN [@ EXCEPT !.announced = TRUE]
          ELSE [@ EXCEPT !.pos = @ + 1, !.announced = FALSE]]
    /\ published' = <<>>
    /\ ret' = NoRet
    /\ UNCHANGED <<agents, objs, qarr, qlen, running, terminated, termpc, db,
                   nextUid, hub>>

NextLock ==
    \/ StartCall
    \/ \E t \in DOMAIN threads : LockStep(t)

\* a goroutine that can take a step is scheduled
SpecLock == Init /\ [][NextLock]_vars /\ WF_vars(\E t \in DOMAIN threads : LockStep(t))

\* one add_queue request with one command, which succeeds or fails
CancelEnqueue ==
    /\ nextUid = 1
    /\ \E commands \in [{Itoa(1)} -> FailCommands] :
          /\ AddToQueue(commands)
          /\ UNCHANGED <<agents, objs, running, terminated, termpc, hub>>

\* loops running a command that succeeds or fails while termination and
\* stop are requested
NextCancel ==
    \/ HandleAddAgent
    \/ CancelEnqueue
    \/ TerminateBegin
    \/ TerminateEnd
    \/ HandleStop
    \/ ThreadStep

\* goroutines are scheduled fairly, every command and every sleep ends
SpecCancel == Init /\ [][NextCancel]_vars /\ WF_vars(ThreadStep)

----------------------------------------------------------------------------
(* Queue requests and what they publish *)

\* handleMessage "add_queue" with any slot keys, at most RunItems items
PublishEnqueue ==
    \E commands \in CommandMaps(QueueCommands) :
        /\ AddToQueue(commands)
        /\ nextUid' - 1 <= RunItems
        /\ UNCHANGED <<agents, objs, running, terminated, termpc, hub>>

\* enqueue, removal and claim requests, one after the other
\* batch sizes of GetNextBatch calls
BatchSizes == 0..MaxBatch

\* GetNextBatch called on its own
CallGetNextBatch ==
    \E batchSize \in BatchSizes :
        /\ GetNextBatch(batchSize)
        /\ published' = <<>>
        /\ UNCHANGED <<agents, objs, threads, running, terminated, termpc,
                       nextUid, hub>>

NextPublish ==
    \/ PublishEnqueue
    \/ CallRemoveFromQueue
    \/ CallGetNextQueueItem
    \/ CallGetNextBatch

SpecPublish == Init /\ [][NextPublish]_vars

----------------------------------------------------------------------------
(* Restart over a store that holds queue records *)

\* priorities of the items created before a restart
LoadPriorities == {0, 1}

\* AddToQueueWithPriority called on its own, at most RunItems items
LoadEnqueue ==
    \E command \in QueueCommands, priority \in LoadPriorities :
        /\ AddToQueueWithPriority(command, priority)
        /\ nextUid' - 1 <= RunItems
        /\ UNCHANGED <<agents, objs, running, terminated, termpc, hub>>

\* CompleteQueueItem called on its own, for the indexes the items can carry
LoadComplete ==
    \E index \in 1..RunItems, success \in BOOLEAN :
        /\ CompleteQueueItem(index, <<"a">>, success)
        /\ ret' = [op |-> "CompleteQueueItem", arg |-> index, val |-> 0]
        /\ published' = <<>>
        /\ UNCHANGED <<agents, objs, qlen, threads, running, terminated, termpc,
                       nextUid, hub>>

\* agents and queue items created, claimed and settled, and the process
\* restarted over its store
NextLoad ==
    \/ ExecAddAgent
    \/ LoadEnqueue
    \/ CallGetNextQueueItem
    \/ LoadComplete
    \/ NewAgentManager

SpecLoad == Init /\ [][NextLoad]_vars

----------------------------------------------------------------------------
(* One execution loop while other items are removed *)

\* handleMessage "add_queue": one request with MaxItems commands
StrandEnqueue ==
    /\ nextUid = 1
    /\ \E commands \in [{Itoa(i) : i \in 1..MaxItems} -> RunCommands] :
          /\ AddToQueue(commands)
          /\ UNCHANGED <<agents, objs, running, terminated, termpc, hub>>

\* handleMessage "queue_rm" for the indexes the request gave
StrandRemove ==
    \E index \in 1..MaxItems :
        /\ RemoveFromQueue(index)
        /\ UNCHANGED <<agents, objs, threads, running, terminated, termpc, nextUid,
                       hub>>

NextStrand ==
    \/ LiveAddAgent
    \/ StrandEnqueue
    \/ StrandRemove
    \/ ThreadStep

\* goroutines are scheduled fairly and every command ends
SpecStrand == Init /\ [][NextStrand]_vars /\ WF_vars(ThreadStep)

----------------------------------------------------------------------------
(* A direct execute for an agent whose loop runs a command *)

\* one agent with its loop, one queued command, direct executes for the agent
NextOverlap ==
    \/ LiveAddAgent
    \/ CancelEnqueue
    \/ HandleExecute
    \/ ThreadStep

SpecOverlap == Init /\ [][NextOverlap]_vars

----------------------------------------------------------------------------
(* Properties, continued *)

EraseItem(it) == [it EXCEPT !.ID = 0]

EraseItems(q) == [k \in DOMAIN q |-> EraseItem(q[k])]

\* what a caller can see of the world without reading the store: the
\* agents, the queue without the store-assigned ID of its items, the
\* goroutines and the value returned
Memory(s) ==
    [agents |-> s.agents, objs |-> s.objs, arr |-> EraseItems(s.arr),
     len |-> s.len,
     th |-> [t \in DOMAIN s.th |-> [s.th[t] EXCEPT !.item.slot = EraseItem(@)]],
     ret |-> s.ret]

\* the world of this state with its store failing
Down == [World EXCEPT !.d = StoreDown(db)]

\* C21: whatever the store does, every AddAgent, RemoveAgent, AddToQueue,
\* RemoveFromQueue, GetNextQueueItem, CompleteQueueItem and ExecuteCommand
\* step returns the value and leaves the agents and the queue (but for the
\* store-assigned ID of the items) that the same call leaves when every
\* store operation fails
C21_StoreFailuresSwallowed ==
    [][/\ \A name \in Names :
            AddAgent(name) => Memory(World') = Memory(AddAgentIn(Down, name))
       /\ \A id \in 0..(maxAgents + 1) :
            RemoveAgent(id) => Memory(World') = Memory(RemoveAgentIn(Down, id))
       /\ \A commands \in BatchMaps(RunCommands) :
            AddToQueue(commands) => Memory(World') = Memory(AddToQueueIn(Down, commands))
       /\ \A index \in IndexPool :
            RemoveFromQueue(index)
                => Memory(World') = Memory(RemoveFromQueueIn(Down, index))
       /\ \A p \in {NilPtr} \cup {LivePtr(i) : i \in 1..qlen} :
            (GetNextQueueItem(p) /\ ret' = [op |-> "GetNextQueueItem", arg |-> 0, val |-> p])
                => Memory(World') = Memory(GetNextQueueItemIn(Down))
       /\ \A index \in IndexPool, success \in BOOLEAN :
            (/\ CompleteQueueItem(index, <<"a">>, success)
             /\ ret' = [op |-> "CompleteQueueItem", arg |-> index, val |-> 0])
                => Memory(World') = Memory(CompleteQueueItemIn(Down, index, <<"a">>, success))
       /\ \A t \in DOMAIN threads :
            /\ ExecBegin(t) => Memory(World') = Memory(ExecBeginIn(Down, t))
            /\ ExecFinish(t) => Memory(World') = Memory(ExecFinishIn(Down, t))
      ]_vars

\* an item that a working store gave an ID was claimed and then completed
\* after the store had failed
C21_Witness ==
    /\ ~db.on
    /\ ret.op = "CompleteQueueItem"
    /\ \E k \in 1..qlen :
          /\ Queue[k].ID > 0
          /\ Queue[k].Status = "completed"
          /\ db.queue[Queue[k].ID].status = "running"

\* C22: with a working store, whenever no ExecuteCommand is in flight, the
\* ids of the rows of the agents table are the ids of the registry
C22_StoreMatchesRegistry ==
    (db.on /\ Quiet) => DOMAIN db.agents = LiveIds

\* the changes of status a queue item may go through
StatusSteps == {<<"pending", "running">>, <<"running", "completed">>,
                <<"running", "failed">>}

\* C23: the status of an item of the queue changes only from pending to
\* running and from running to completed or failed
C23_StatusTransitions ==
    [][\A i \in 1..qlen, j \in 1..qlen' :
          (qarr[i].uid = qarr'[j].uid /\ qarr[i].Status # qarr'[j].Status)
              => <<qarr[i].Status, qarr'[j].Status>> \in StatusSteps]_vars

\* C24: when the command of a loop ends with a non-zero exit code, the
\* agent's TasksFailed grows by one and its TasksDone stays, the item the
\* loop claimed is marked failed with the output of the command, and the
\* loop goes back to its test and from there to the next claim
C24_FailureHandled ==
    [][\A t \in DOMAIN threads :
          /\ (/\ threads[t].kind = "loop"
              /\ threads[t].pc = "e3"
              /\ threads'[t].pc # "e3"
              /\ threads[t].result.ExitCode # 0)
                => LET id == threads[t].agentID
                   IN /\ id \in LiveIds'
                      /\ objs'[agents'[id]].TasksFailed = AgentOf(id).TasksFailed + 1
                      /\ objs'[agents'[id]].TasksDone = AgentOf(id).TasksDone
          /\ (/\ threads[t].pc = "complete"
              /\ threads'[t].pc # "complete"
              /\ threads[t].result.ExitCode # 0)
                => /\ threads'[t].pc = "check"
                   /\ \E k \in 1..qlen' :
                         /\ qarr'[k].uid = threads[t].claimed
                         /\ qarr'[k].Status = "failed"
                         /\ qarr'[k].Output = threads[t].result.Output
          /\ (threads[t].pc = "check" /\ threads'[t].pc # "check")
                => threads'[t].pc = "claim"
      ]_vars

\* a loop has settled a command that sh could not be started for and a
\* command that exited with a non-zero code: after the first failure it
\* went on to claim the other item, both items are marked failed with the
\* output captured, and the agent has two failed tasks
C24_Witness ==
    \E t \in Loops, i \in 1..qlen, j \in 1..qlen :
        /\ Queue[i].Status = "failed"
        /\ Queue[i].Output = ShNotStarted.out
        /\ Queue[i].AgentID = threads[t].agentID
        /\ Queue[j].Status = "failed"
        /\ Queue[j].Output = <<"?">>
        /\ Queue[j].AgentID = threads[t].agentID
        /\ threads[t].agentID \in LiveIds
        /\ AgentOf(threads[t].agentID).TasksFailed = 2

\* the step creates the Agent object r
Creates(r) ==
    /\ ret'.op = "AddAgent"
    /\ ret'.val # 0
    /\ agents'[ret'.val] = r

\* the step is goroutine t settling a command on the Agent object r
Settles(t, r) ==
    /\ threads[t].pc = "e3"
    /\ threads'[t].pc # "e3"
    /\ threads[t].exists
    /\ threads[t].agent = r

\* C25: a command that settles for a live agent leaves the agent idle with
\* an empty CurrentTask and adds one to TasksDone when its exit code is 0
\* and one to TasksFailed otherwise, leaving the other counter; no other
\* step changes a counter of an agent, so that the sum of the counters is
\* the number of commands settled for the agent since AddAgent created it
C25_SettleCounts ==
    [][\A r \in Range(agents) \cap Range(agents') :
          ~Creates(r) =>
            IF \E t \in DOMAIN threads : Settles(t, r)
            THEN LET t == CHOOSE t \in DOMAIN threads : Settles(t, r)
                     ok == threads[t].result.ExitCode = 0
                 IN /\ objs'[r].Status = "idle"
                    /\ objs'[r].CurrentTask = <<>>
                    /\ objs'[r].TasksDone = objs[r].TasksDone + (IF ok THEN 1 ELSE 0)
                    /\ objs'[r].TasksFailed = objs[r].TasksFailed + (IF ok THEN 0 ELSE 1)
            ELSE /\ objs'[r].TasksDone = objs[r].TasksDone
                 /\ objs'[r].TasksFailed = objs[r].TasksFailed
      ]_vars

\* an agent that was created after another agent of its id was removed has
\* settled a command that failed and one that succeeded
C25_Witness ==
    \E id \in LiveIds :
        /\ AgentOf(id).TasksDone = 1
        /\ AgentOf(id).TasksFailed = 1
        /\ Cardinality({t \in Loops : threads[t].agentID = id}) = 2

\* C26: every live agent has Status idle or running, and a live agent whose
\* Status is idle has an empty CurrentTask
C26_AgentStatus ==
    \A id \in LiveIds :
        /\ AgentOf(id).Status \in {"idle", "running"}
        /\ AgentOf(id).Status = "idle" => AgentOf(id).CurrentTask = <<>>

\* a process started over the store of one that stopped while a command
\* ran has loaded an agent that is running and has settled a command before
C26_Witness ==
    /\ ret.op = "NewAgentManager"
    /\ \E id \in LiveIds :
          /\ AgentOf(id).Status = "running"
          /\ AgentOf(id).CurrentTask # <<>>
          /\ AgentOf(id).TasksDone > 0

\* the execution loops running under the agent id
LoopsOf(id) == {t \in Loops : threads[t].agentID = id /\ threads[t].pc # "exited"}

\* the add_agent handlers about to start the loop of the agent id
StartingFor(id) == {t \in Starting : threads[t].agentID = id}

\* C27: at most one execution loop runs under an agent id, and every live
\* agent has one, or the handler that created it is about to start one
C27_OneLoopPerAgent ==
    \A id \in 1..maxAgents :
        /\ Cardinality(LoopsOf(id)) <= 1
        /\ id \in LiveIds => LoopsOf(id) \cup StartingFor(id) # {}

\* C28: a step that changes am.clients is taken by a goroutine that holds
\* the write lock of clientLock, so that no call of broadcastMessage holds
\* the read lock at that step
C28_ClientsUnderWriteLock ==
    [][clients' # clients => InRange = {}]_vars

\* the call waits for a lock
Waiting(t) ==
    /\ ~Returned(t)
    /\ NextOp(t).op \in {"Lock", "RLock"}

LockRank(l) == IF l = "client" THEN 2 ELSE 1

\* C29: a call that asks for a lock holds only locks that come before it in
\* the order agentLock, queueLock < clientLock, and every call that waits
\* for a lock obtains it: no call is left waiting, in the end every call
\* that was made has returned
C29_NoDeadlock ==
    /\ [](\A t \in Calls : Waiting(t) =>
            \A l \in {"agent", "queue", "client"} :
                HeldMode(t, l) # "none" => LockRank(l) < LockRank(NextOp(t).lock))
    /\ <>[](\A t \in Calls : Returned(t))

\* AddAgent holds agentLock and waits for the read lock of clientLock, which
\* handleWebSocket holds
C29_Witness ==
    \E t \in Calls, u \in Calls :
        /\ threads[t].op = "AddAgent"
        /\ HeldMode(t, "agent") = "Lock"
        /\ Waiting(t)
        /\ NextOp(t).lock = "client"
        /\ threads[u].op = "handleWebSocket"
        /\ HeldMode(u, "client") = "Lock"

\* termination or stop has been requested
Cancelled == terminated \/ ~running

\* C30: a command of a loop that was spawned is settled although
\* termination or stop has been requested since: the counters of the agent
\* are updated and the claimed item is marked completed or failed by the
\* exit code; and once termination or stop is requested every loop exits
C30_CooperativeCancel ==
    /\ [][\A t \in DOMAIN threads :
            /\ (/\ Cancelled
                /\ threads[t].kind = "loop"
                /\ threads[t].pc = "e3"
                /\ threads'[t].pc # "e3")
                  => LET id == threads[t].agentID
                         ok == threads[t].result.ExitCode = 0
                     IN /\ threads'[t].pc = "e4"
                        /\ objs'[agents'[id]].TasksDone
                              = AgentOf(id).TasksDone + (IF ok THEN 1 ELSE 0)
                        /\ objs'[agents'[id]].TasksFailed
                              = AgentOf(id).TasksFailed + (IF ok THEN 0 ELSE 1)
            /\ (/\ Cancelled
                /\ threads[t].spawned = 1
                /\ threads[t].pc = "complete"
                /\ threads'[t].pc # "complete")
                  => \E k \in 1..qlen' :
                        /\ qarr'[k].uid = threads[t].claimed
                        /\ qarr'[k].Status = IF threads[t].result.ExitCode = 0
                                             THEN "completed" ELSE "failed"
                        /\ qarr'[k].Output = threads[t].result.Output
       ]_vars
    /\ \A t \in 1..MaxLoops :
          (t \in Loops /\ Cancelled) ~> (t \in Loops /\ threads[t].pc = "exited")

\* termination was requested while a command that fails was running; the
\* command was settled, its item marked failed, and the loops have exited
C30_Witness ==
    /\ terminated
    /\ running
    /\ Cardinality(Loops) = MaxLoops
    /\ \A t \in Loops : threads[t].pc = "exited"
    /\ \E k \in 1..qlen : Queue[k].Status = "failed" /\ Queue[k].Output = <<"?">>
    /\ \E id \in LiveIds : AgentOf(id).TasksFailed = 1

\* the items an AddToQueue call with these slot keys creates
Created(commands) ==
    Cardinality({i \in 1..Cardinality(DOMAIN commands) : Itoa(i) \in DOMAIN commands})

\* exactly one message is published, a queue_updated carrying q
PublishesQueue(q) ==
    /\ Len(published') = 1
    /\ published'[1].Type = "queue_updated"
    /\ published'[1].Payload = q

\* C31: each AddToQueue call publishes exactly one queue_updated whose payload
\* is the whole queue after the append; each RemoveFromQueue that returns
\* true publishes exactly one queue_updated with the whole queue after the
\* deletion, and a RemoveFromQueue that returns false publishes nothing
C31_QueueUpdatedPublished ==
    [][/\ \A commands \in CommandMaps(QueueCommands) :
             AddToQueue(commands) =>
                /\ PublishesQueue(Queue')
                /\ Len(Queue') = Len(Queue) + Created(commands)
                /\ SubSeq(Queue', 1, Len(Queue)) = Queue
       /\ \A index \in IndexPool :
             RemoveFromQueue(index) =>
                IF ret'.val
                THEN /\ PublishesQueue(Queue')
                     /\ Len(Queue') = Len(Queue) - 1
                     /\ \E i \in Carrying(Queue, index) : Queue' = Without(Queue, i)
                ELSE /\ published' = <<>>
                     /\ Queue' = Queue]_vars

\* a removal returned true and published the one item that is left, which a
\* claim had flipped to running
C31_Witness ==
    /\ ret.op = "RemoveFromQueue"
    /\ ret.val = TRUE
    /\ qlen = 1
    /\ Queue[1].Status = "running"
    /\ published = <<QueueUpdated(qarr, qlen)>>

\* ids of the queue rows of the store that are not completed
OpenRows == {i \in DOMAIN db.queue : db.queue[i].status # "completed"}

\* C32: after a start over a working store the registry holds exactly the
\* agents of the store, and the queue holds exactly the store's queue rows
\* whose status is not completed, each once with the content of its row, by
\* priority descending and then row id ascending
C32_LoadedState ==
    (ret.op = "NewAgentManager" /\ db.on) =>
        /\ LiveIds = DOMAIN db.agents
        /\ \A id \in LiveIds : AgentRow(AgentOf(id)) = db.agents[id]
        /\ \A id \in LiveIds : AgentOf(id).ID = id
        /\ qlen = Cardinality(OpenRows)
        /\ {Queue[i].ID : i \in 1..qlen} = OpenRows
        /\ \A i \in 1..qlen :
              /\ QueueRow(Queue[i]) = db.queue[Queue[i].ID]
              /\ Queue[i].Status \in {"pending", "running", "failed"}
        /\ \A i, j \in 1..qlen :
              i < j => \/ Queue[i].Priority > Queue[j].Priority
                       \/ /\ Queue[i].Priority = Queue[j].Priority
                          /\ Queue[i].ID < Queue[j].ID

\* a start loaded an agent and two open items, the later one first for its
\* higher priority
C32_Witness ==
    /\ ret.op = "NewAgentManager"
    /\ db.on
    /\ LiveIds # {}
    /\ qlen = 2
    /\ Queue[1].ID > Queue[2].ID
    /\ Queue[1].Priority > Queue[2].Priority
    /\ Queue[2].Status = "failed"

\* loop t has spawned a subprocess for the command of item u
Spawned(t, u) ==
    /\ threads[t].spawned = 1
    /\ threads[t].ran = u

\* C33: no two execution loops spawn a subprocess for the command of the
\* same queue item, whatever enqueue, removal and clear requests run between
\* their steps
C33_ExecutedAtMostOnce ==
    \A t1, t2 \in Loops : \A u \in 1..RunItems :
        (Spawned(t1, u) /\ Spawned(t2, u)) => t1 = t2

\* C34: an item is marked completed only by a loop that has spawned a
\* subprocess for the item's command and seen it exit with code 0; an item
\* whose command was not run is never marked completed
C34_CompletedWasRun ==
    [][\A k \in 1..qlen :
          (/\ k <= qlen'
           /\ qarr'[k].uid = qarr[k].uid
           /\ qarr[k].Status # "completed"
           /\ qarr'[k].Status = "completed") =>
              \E t \in Loops :
                 /\ threads[t].pc = "complete"
                 /\ threads'[t].pc = "check"
                 /\ threads[t].ran = qarr[k].uid
                 /\ threads[t].spawned = 1
                 /\ threads[t].result.ExitCode = 0]_vars

\* the item created as the u-th is queued with status st
QueuedAs(u, st) == \E k \in 1..qlen : Queue[k].uid = u /\ Queue[k].Status = st

\* C35: every item that a loop has flipped to running is later completed or
\* failed, unless the item itself is removed from the queue, whatever
\* removals of other items run in between, the goroutines being scheduled
\* fairly and every command ending
C35_NoItemStranded ==
    \A u \in 1..MaxItems :
        QueuedAs(u, "running") ~>
            (\/ QueuedAs(u, "completed")
             \/ QueuedAs(u, "failed")
             \/ \A k \in 1..qlen : Queue[k].uid # u)

\* goroutine t is inside ExecuteCommand between marking the live agent it
\* found and settling it
InFlight(t) ==
    /\ threads[t].pc \in {"e2", "spawn", "wait", "e3"}
    /\ threads[t].exists
    /\ threads[t].agentID \in LiveIds
    /\ agents[threads[t].agentID] = threads[t].agent

\* C36: while a command is in flight for a live agent, the agent has Status
\* running and a non-empty CurrentTask, also when a direct execute for the
\* agent overlaps with a command of its loop or with another direct execute
C36_RunningWhileInFlight ==
    \A t \in DOMAIN threads :
        InFlight(t) =>
            /\ AgentOf(threads[t].agentID).Status = "running"
            /\ AgentOf(threads[t].agentID).CurrentTask # <<>>

====
